---- MODULE Spec2Model ----
(***************************************************************************)
(* Model of the migration engine of pggo (src/migrate/migrate.go).         *)
(*                                                                         *)
(* A migration name is modelled by its rank in Go string order, so that    *)
(* sort.Strings is the ascending order of the naturals.  The version table *)
(* is the sequence of its rows in migrated_at order: each insert takes     *)
(* now() of a transaction (or statement) that starts after every stored    *)
(* row was written, so an insert appends.  Every database call of the code *)
(* is one step and may fail.  A failed release of the advisory lock means  *)
(* the connection is lost: the lock stays held until the session ends.     *)
(***************************************************************************)
EXTENDS Naturals, Integers, Sequences, FiniteSets, TLC

\* ---------------------------------------------------------------- bounds
MaxName == 3

\* how many files the two concurrent migrators have loaded
MaxLoaded == 2

\* the one migration file of the sample directory that has no down body
IrreversibleName == 2

Names == 1..MaxName

\* the longest line of a migration file's text
MaxLineLen == 2

\* the most lines in one part of a migration file
MaxLines == 2

\* the most files the new command is followed to
MaxFiles == 3

Migrators == {"m1", "m2"}

\* ------------------------------------------------------- program constants
Back == "Back"

Forward == "Forward"

NotFound == "NotFound"

EmptySQL == [op |-> "", obj |-> 0]

CreateSQL(n) == [op |-> "create", obj |-> n]

DropSQL(n) == [op |-> "drop", obj |-> n]

NoTx == [open |-> FALSE]

NoError == [kind |-> "nil", name |-> 0, sql |-> EmptySQL]

Error(k) == [kind |-> k, name |-> 0, sql |-> EmptySQL]

MigrationNotFound(n) == [kind |-> "MigrationNotFound", name |-> n, sql |-> EmptySQL]

MigrationPgError(s) == [kind |-> "MigrationPgError", name |-> 0, sql |-> s]

IrreversibleMigrationError(n) == [kind |-> "IrreversibleMigrationError", name |-> n, sql |-> EmptySQL]

NoMigrations == [n \in {} |-> EmptySQL]

NoSnapshot == [versionTable |-> <<>>, objects |-> {}]

\* no call precedes, or something changed since it returned
\* OnStart is nil
NoCallback == [set |-> FALSE, calls |-> <<>>]

NoPrev == [kind |-> "none", versionTable |-> <<>>, objects |-> {}]

VARIABLES
    tableExists,      \* the version table exists
    versionTable,     \* committed rows of the version table, in migrated_at order
    objects,          \* committed database objects created by migration SQL
    directory,        \* the migration files: name -> down body (the up body creates the object)
    otherSchema,      \* a table with the version table's name exists in another schema
    OnStart,          \* per migrator: whether the callback is set, and the calls it received
    files,            \* the matching files of the migration directory, in file name order
    lockHeld,         \* per session: it holds the advisory lock
    tx,               \* per session: the open transaction's working state, or NoTx
    pc,               \* per migrator: position in its current call
    Migrations,       \* per migrator: map name -> Migration (UpSQL, DownSQL)
    DisableTx,        \* per migrator: options.DisableTx
    fake,             \* per migrator: fake mode is enabled
    op,               \* per migrator: the entry point of the current call
    targetMigration,  \* per migrator: MigrateTo's argument
    direction,        \* per migrator: result of GetDirection
    migrationsToApply,\* per migrator: the traversal
    idx,              \* per migrator: index of the current traversal entry
    err,              \* per migrator: MigrateTo's named result
    pre,              \* per migrator: database state when the lock was acquired
    trace,            \* per migrator: database calls of the current call, in order
    prev              \* per migrator: the previous call and the database it found, while
                      \* nothing has changed since it returned

vars == <<directory, otherSchema, OnStart, files, tableExists, versionTable, objects, lockHeld, tx, pc, Migrations,
          DisableTx, fake, op, targetMigration, direction, migrationsToApply, idx,
          err, pre, trace, prev>>

dbVars == <<tableExists, versionTable, objects>>

callVars == <<op, targetMigration, direction, migrationsToApply, idx, err, pre, trace>>

\* ------------------------------------------------------------ pure helpers
Range(s) == {s[i] : i \in 1..Len(s)}

\* Position: index (0-based) of the first occurrence of x in a, or -1
Position(a, x) ==
    IF \E i \in 1..Len(a) : a[i] = x
    THEN (CHOOSE i \in 1..Len(a) : a[i] = x /\ \A j \in 1..(i-1) : a[j] # x) - 1
    ELSE -1

Reverse(s) == [i \in 1..Len(s) |-> s[Len(s) + 1 - i]]

RECURSIVE SortStrings(_)
SortStrings(S) ==
    IF S = {} THEN <<>>
    ELSE LET mn == CHOOSE x \in S : \A y \in S : x <= y
         IN <<mn>> \o SortStrings(S \ {mn})

\* the pending names left in descending order
MigrationsToApply_Descending(currentMigrations, migs) ==
    Reverse(SortStrings({n \in DOMAIN migs : Position(currentMigrations, n) < 0}))

\* every loaded name is returned, applied or not
MigrationsToApply_Unfiltered(currentMigrations, migs) ==
    SortStrings(DOMAIN migs)

\* the inner loop stops before the last applied name
MigrationsToApply_MissesLast(currentMigrations, migs) ==
    SortStrings({n \in DOMAIN migs :
        Position(SubSeq(currentMigrations, 1, Len(currentMigrations) - 1), n) < 0})

\* the loop of MigrationsToApply: loaded names that are not applied, sorted
MigrationsToApply(currentMigrations, migs) ==
    SortStrings({n \in DOMAIN migs : Position(currentMigrations, n) < 0})

\* a target that is neither applied nor loaded is taken for a forward target
GetDirection_UnknownIsForward(currentMigrations, migs, target) ==
    IF Position(currentMigrations, target) >= 0 THEN Back
    ELSE Forward

\* the loaded set is looked at first
GetDirection_LoadedFirst(currentMigrations, migs, target) ==
    IF target \in DOMAIN migs THEN Forward
    ELSE IF Position(currentMigrations, target) >= 0 THEN Back
    ELSE NotFound

GetDirection(currentMigrations, migs, target) ==
    IF Position(currentMigrations, target) >= 0 THEN Back
    ELSE IF target \in DOMAIN migs THEN Forward
    ELSE NotFound

\* the slice taken one entry too far, so that it includes the target
BackTraversal_Inclusive(currentMigrations, target) ==
    LET r == Reverse(currentMigrations)
    IN SubSeq(r, 1, Position(r, target) + 1)

\* the slice is taken without Reverse: the rows older than the target
BackTraversal_NotReversed(currentMigrations, target) ==
    SubSeq(currentMigrations, 1, Position(currentMigrations, target))

\* Reverse(currentMigrations); currentMigrations[:Position(currentMigrations, target)]
BackTraversal(currentMigrations, target) ==
    LET r == Reverse(currentMigrations)
    IN SubSeq(r, 1, Position(r, target))

SQLFor(mig, dir) == IF dir = Forward THEN mig.UpSQL ELSE mig.DownSQL

\* var directionName string: declared and passed to OnStart, never assigned
DirectionName(dir) == ""

\* if m.OnStart != nil { m.OnStart(current.Sequence, current.Name, directionName, sql) }
FireOnStart(cb, mig, dir) ==
    IF cb.set
    THEN [cb EXCEPT !.calls = Append(@, [sequence |-> mig.Sequence,
                                         name |-> mig.Name,
                                         directionName |-> DirectionName(dir),
                                         sql |-> SQLFor(mig, dir)])]
    ELSE cb

\* "create table tN" is refused when tN exists; "drop table if exists tN" never is
Accepted(sql, objs) == sql.op = "create" => sql.obj \notin objs

\* effect of a migration body on the database objects
ExecSQL(sql, objs) ==
    IF sql.op = "create" THEN objs \cup {sql.obj}
    ELSE IF sql.op = "drop" THEN objs \ {sql.obj}
    ELSE objs

\* insert into versionTable (migration_name, migrated_at) values ($1, now())
\* the new row is read before the rows already there
markMigrationApplied_First(rows, name) == <<name>> \o rows

markMigrationApplied(rows, name) == Append(rows, name)

\* the row is left in the table
markMigrationUnapplied_NoDelete(rows, name) == rows

\* delete from versionTable where migration_name = $1
\* the oldest row is deleted, whatever its name
markMigrationUnapplied_Oldest(rows, name) == Tail(rows)

markMigrationUnapplied(rows, name) == SelectSeq(rows, LAMBDA r : r # name)

Event(e, n) == [ev |-> e, name |-> n]

EventNames(t, e) ==
    LET sel == SelectSeq(t, LAMBDA x : x.ev = e)
    IN [i \in 1..Len(sel) |-> sel[i].name]

\* ------------------------------------------------------------- the database
\* what session m reads: its own open transaction, else the committed state
DBRead(m) ==
    IF tx[m].open THEN [versionTable |-> tx[m].versionTable, objects |-> tx[m].objects]
    ELSE [versionTable |-> versionTable, objects |-> objects]

\* every write goes straight to the database, the open transaction notwithstanding
DBWrite_Autocommit(m, rows, objs) ==
    /\ versionTable' = rows
    /\ objects' = objs
    /\ UNCHANGED tx

\* a write of session m goes to its open transaction, else straight to the database
DBWrite(m, rows, objs) ==
    IF tx[m].open
    THEN /\ tx' = [tx EXCEPT ![m] = [open |-> TRUE, versionTable |-> rows, objects |-> objs]]
         /\ UNCHANGED <<versionTable, objects>>
    ELSE /\ versionTable' = rows
         /\ objects' = objs
         /\ UNCHANGED tx

\* GetCurrentVersion: select migration_name from versionTable order by migrated_at
GetCurrentVersion(m) == DBRead(m).versionTable

LockFree(m) == \A o \in Migrators \ {m} : ~lockHeld[o]

\* every other migrator's "nothing changed since my last call" mark is dropped
Touch(m, mine) == [o \in Migrators |-> IF o = m THEN mine ELSE NoPrev]

Log(m, e, n) == trace' = [trace EXCEPT ![m] = Append(@, Event(e, n))]

SessionOver(m) ==
    \/ err[m].kind = "panic"
    \/ \E i \in 1..Len(trace[m]) : trace[m][i].ev = "unlockfail"

\* leave the loop with the named result set and return, no deferred call run
Fail_NoDeferred(m, e) ==
    /\ err' = [err EXCEPT ![m] = e]
    /\ pc' = [pc EXCEPT ![m] = "returned"]

\* leave the loop with the named result set; the deferred calls run next
Fail(m, e) ==
    /\ err' = [err EXCEPT ![m] = e]
    /\ pc' = [pc EXCEPT ![m] = "rollback"]

\* the sample directory: one file without a down body, the others reversible
\* ---- the text of migration files
\* a line is a sequence of characters: a space, a dash, or any other character
Chars == {" ", "-", "c"}

RECURSIVE SeqsUpTo(_, _)
SeqsUpTo(S, n) ==
    IF n = 0 THEN {<<>>}
    ELSE LET shorter == SeqsUpTo(S, n - 1)
         IN shorter \cup {Append(q, x) : q \in shorter, x \in S}

Lines == SeqsUpTo(Chars, MaxLineLen)

\* the up or down part of a file: its lines
Bodies == SeqsUpTo(Lines, MaxLines)

\* strings.TrimSpace on one line
RECURSIVE TrimLeft(_)
TrimLeft(line) ==
    IF line # <<>> /\ Head(line) = " " THEN TrimLeft(Tail(line)) ELSE line

RECURSIVE TrimRight(_)
TrimRight(line) ==
    IF line # <<>> /\ line[Len(line)] = " " THEN TrimRight(SubSeq(line, 1, Len(line) - 1)) ELSE line

TrimSpace(line) == TrimRight(TrimLeft(line))

\* strings.HasPrefix(cleanString, "--")
HasPrefixDashes(line) == Len(line) >= 2 /\ line[1] = "-" /\ line[2] = "-"

\* every line counts, comments too
containsSQL_AnyLine(body) ==
    \E i \in 1..Len(body) : Len(TrimSpace(body[i])) # 0

\* the loop over strings.Split(upSQL, "\n"): a line that is neither empty nor
\* a single line comment
containsSQL(body) ==
    \E i \in 1..Len(body) :
        LET cleanString == TrimSpace(body[i])
        IN Len(cleanString) # 0 /\ ~HasPrefixDashes(cleanString)

\* strings.TrimSpace(pieces[1]) is not the empty string
HasText(body) == \E i \in 1..Len(body) : TrimSpace(body[i]) # <<>>

\* the migration that AppendMigration stores for the n-th file: the up text is
\* the statement that creates object n, the down text the one that drops it
ParseFile(n, file, sequence) ==
    [Sequence |-> sequence, Name |-> n, UpSQL |-> CreateSQL(n),
     DownSQL |-> IF file.delimiter /\ HasText(file.down) THEN DropSQL(n) ELSE EmptySQL]

\* ---- the names of migration files
\* the byte that follows the digits of a prefix: "_" sorts after every digit
Underscore == 10

\* a < b for Go strings, as sort.Strings compares them: byte by byte, with a
\* proper prefix before the longer string
RECURSIVE StringLess(_, _)
StringLess(a, b) ==
    IF b = <<>> THEN FALSE
    ELSE IF a = <<>> THEN TRUE
    ELSE IF Head(a) # Head(b) THEN Head(a) < Head(b)
    ELSE StringLess(Tail(a), Tail(b))

\* the start of the file name whose digits are prefix: the digits and "_"
FileName(prefix) == Append(prefix, Underscore)

\* the number that the digits of a prefix denote
RECURSIVE NumericPrefix(_)
NumericPrefix(prefix) ==
    IF prefix = <<>> THEN 0
    ELSE 10 * NumericPrefix(SubSeq(prefix, 1, Len(prefix) - 1)) + prefix[Len(prefix)]

\* the files of the sample directory dir: 001_..., 002_..., ...
SampleFiles(dir) ==
    [n \in 1..MaxLoaded |->
        [prefix |-> <<0, 0, n>>,
         up |-> << <<"c">> >>,
         delimiter |-> dir[n] # EmptySQL,
         down |-> IF dir[n] = EmptySQL THEN <<>> ELSE << <<"c">> >>]]

\* one file: any up part; no delimiter, or a delimiter followed by nothing, by
\* blanks or by a statement
FileTexts ==
    [prefix : {<<0, 0, 1>>}, up : Bodies, delimiter : {FALSE}, down : {<<>>}]
        \cup [prefix : {<<0, 0, 1>>}, up : Bodies, delimiter : {TRUE},
               down : {<<>>, << <<" ">> >>, << <<"c">> >>}]

\* fmt.Sprintf("%03d", n): at least three digits
Sprintf03d(n) ==
    IF n < 1000 THEN <<n \div 100, (n \div 10) % 10, n % 10>>
    ELSE <<n \div 1000, (n \div 100) % 10, (n \div 10) % 10, n % 10>>

\* the bytes of a file name up to its extension: digits, "_", and the name the
\* user chose ("a" and "b" sort after "_")
FullName(f) == FileName(f.prefix) \o f.title

\* the files that a project directory may hold before the new command is run:
\* prefixes need not be contiguous
ProjectFiles ==
    [prefix : {<<0, 0, 1>>, <<0, 0, 2>>, <<0, 0, 3>>, <<0, 0, 4>>, <<0, 0, 5>>}, title : {<<11>>, <<12>>},
     up : {<< <<"c">> >>}, delimiter : {TRUE}, down : {<< <<"c">> >>}]

\* the directory after a file is added, as ReadDir lists it
InsertSorted(fs, f) ==
    LET before == SelectSeq(fs, LAMBDA g : StringLess(FullName(g), FullName(f)))
        after == SelectSeq(fs, LAMBDA g : ~StringLess(FullName(g), FullName(f)))
    IN before \o <<f>> \o after

\* len(migrations)+1
NextPrefix(fs) == Len(fs) + 1

\* prefixes of one and of two digits, with and without a leading zero
Prefixes == {<<1>>, <<2>>, <<0, 2>>, <<1, 0>>}

\* the sample files under other prefixes, listed as ReadDir lists them: sorted
\* by file name
PrefixedFiles(dir) ==
    {fs \in [1..MaxLoaded -> [prefix : Prefixes, up : {<< <<"c">> >>}, delimiter : BOOLEAN,
                               down : {<<>>, << <<"c">> >>}]] :
        /\ \A n \in 1..MaxLoaded :
              /\ fs[n].delimiter = SampleFiles(dir)[n].delimiter
              /\ fs[n].down = SampleFiles(dir)[n].down
        /\ \A i \in 1..MaxLoaded : \A j \in (i + 1)..MaxLoaded :
              StringLess(FileName(fs[i].prefix), FileName(fs[j].prefix))}

Directories ==
    { [n \in Names |-> IF n = IrreversibleName THEN EmptySQL ELSE DropSQL(n)] }

\* ------------------------------------------------------------------- Init
\* one migrator session is started; the other never is
Init ==
    /\ directory \in Directories
    /\ otherSchema = FALSE
    /\ OnStart = [m \in Migrators |-> NoCallback]
    /\ files = SampleFiles(directory)
    /\ tableExists = FALSE
    /\ versionTable = <<>>
    /\ objects = {}
    /\ lockHeld = [m \in Migrators |-> FALSE]
    /\ tx = [m \in Migrators |-> NoTx]
    /\ pc = [m \in Migrators |-> IF m = "m1" THEN "new" ELSE "off"]
    /\ Migrations = [m \in Migrators |-> NoMigrations]
    /\ DisableTx = [m \in Migrators |-> FALSE]
    /\ fake = [m \in Migrators |-> FALSE]
    /\ op = [m \in Migrators |-> "none"]
    /\ targetMigration = [m \in Migrators |-> 0]
    /\ direction = [m \in Migrators |-> "none"]
    /\ migrationsToApply = [m \in Migrators |-> <<>>]
    /\ idx = [m \in Migrators |-> 0]
    /\ err = [m \in Migrators |-> NoError]
    /\ pre = [m \in Migrators |-> NoSnapshot]
    /\ trace = [m \in Migrators |-> <<>>]
    /\ prev = [m \in Migrators |-> NoPrev]

\* a directory in which every file has a down body
ReversibleDirectory == [n \in Names |-> DropSQL(n)]

\* one migrator session is started on the reversible directory
RevInit ==
    /\ directory = ReversibleDirectory
    /\ otherSchema = FALSE
    /\ OnStart = [m \in Migrators |-> NoCallback]
    /\ files = SampleFiles(directory)
    /\ tableExists = FALSE
    /\ versionTable = <<>>
    /\ objects = {}
    /\ lockHeld = [m \in Migrators |-> FALSE]
    /\ tx = [m \in Migrators |-> NoTx]
    /\ pc = [m \in Migrators |-> IF m = "m1" THEN "new" ELSE "off"]
    /\ Migrations = [m \in Migrators |-> NoMigrations]
    /\ DisableTx = [m \in Migrators |-> FALSE]
    /\ fake = [m \in Migrators |-> FALSE]
    /\ op = [m \in Migrators |-> "none"]
    /\ targetMigration = [m \in Migrators |-> 0]
    /\ direction = [m \in Migrators |-> "none"]
    /\ migrationsToApply = [m \in Migrators |-> <<>>]
    /\ idx = [m \in Migrators |-> 0]
    /\ err = [m \in Migrators |-> NoError]
    /\ pre = [m \in Migrators |-> NoSnapshot]
    /\ trace = [m \in Migrators |-> <<>>]
    /\ prev = [m \in Migrators |-> NoPrev]

\* the first MaxLoaded files of the directory, as LoadMigrations appends them
LoadAll == [n \in 1..MaxLoaded |-> [Sequence |-> n, Name |-> n, UpSQL |-> CreateSQL(n), DownSQL |-> directory[n]]]

\* one constructed migrator that has loaded the directory, as the command line
\* has when it comes to its fake flag
FakeInit ==
    /\ directory \in Directories
    /\ otherSchema = FALSE
    /\ OnStart = [m \in Migrators |-> NoCallback]
    /\ files = SampleFiles(directory)
    /\ tableExists = TRUE
    /\ versionTable = <<>>
    /\ objects = {}
    /\ lockHeld = [m \in Migrators |-> FALSE]
    /\ tx = [m \in Migrators |-> NoTx]
    /\ pc = [m \in Migrators |-> IF m = "m1" THEN "idle" ELSE "off"]
    /\ Migrations = [m \in Migrators |-> IF m = "m1" THEN LoadAll ELSE NoMigrations]
    /\ DisableTx \in [Migrators -> BOOLEAN]
    /\ fake = [m \in Migrators |-> FALSE]
    /\ op = [m \in Migrators |-> "none"]
    /\ targetMigration = [m \in Migrators |-> 0]
    /\ direction = [m \in Migrators |-> "none"]
    /\ migrationsToApply = [m \in Migrators |-> <<>>]
    /\ idx = [m \in Migrators |-> 0]
    /\ err = [m \in Migrators |-> NoError]
    /\ pre = [m \in Migrators |-> NoSnapshot]
    /\ trace = [m \in Migrators |-> <<>>]
    /\ prev = [m \in Migrators |-> NoPrev]

\* a constructed migrator that has loaded nothing yet
LoadInit ==
    /\ directory \in Directories
    /\ otherSchema = FALSE
    /\ OnStart = [m \in Migrators |-> NoCallback]
    /\ files \in {SubSeq(SampleFiles(directory), 1, k) : k \in 0..MaxLoaded}
    /\ tableExists = TRUE
    /\ versionTable = <<>>
    /\ objects = {}
    /\ lockHeld = [m \in Migrators |-> FALSE]
    /\ tx = [m \in Migrators |-> NoTx]
    /\ pc = [m \in Migrators |-> IF m = "m1" THEN "idle" ELSE "off"]
    /\ Migrations = [m \in Migrators |-> NoMigrations]
    /\ DisableTx \in [Migrators -> BOOLEAN]
    /\ fake = [m \in Migrators |-> FALSE]
    /\ op = [m \in Migrators |-> "none"]
    /\ targetMigration = [m \in Migrators |-> 0]
    /\ direction = [m \in Migrators |-> "none"]
    /\ migrationsToApply = [m \in Migrators |-> <<>>]
    /\ idx = [m \in Migrators |-> 0]
    /\ err = [m \in Migrators |-> NoError]
    /\ pre = [m \in Migrators |-> NoSnapshot]
    /\ trace = [m \in Migrators |-> <<>>]
    /\ prev = [m \in Migrators |-> NoPrev]

\* a project directory with up to two migration files
NewInit ==
    /\ directory \in Directories
    /\ otherSchema = FALSE
    /\ OnStart = [m \in Migrators |-> NoCallback]
    /\ files \in {fs \in SeqsUpTo(ProjectFiles, 2) :
                    \A i \in 1..Len(fs) : \A k \in (i + 1)..Len(fs) :
                        StringLess(FullName(fs[i]), FullName(fs[k]))}
    /\ tableExists = TRUE
    /\ versionTable = <<>>
    /\ objects = {}
    /\ lockHeld = [m \in Migrators |-> FALSE]
    /\ tx = [m \in Migrators |-> NoTx]
    /\ pc = [m \in Migrators |-> IF m = "m1" THEN "idle" ELSE "off"]
    /\ Migrations = [m \in Migrators |-> NoMigrations]
    /\ DisableTx = [m \in Migrators |-> FALSE]
    /\ fake = [m \in Migrators |-> FALSE]
    /\ op = [m \in Migrators |-> "none"]
    /\ targetMigration = [m \in Migrators |-> 0]
    /\ direction = [m \in Migrators |-> "none"]
    /\ migrationsToApply = [m \in Migrators |-> <<>>]
    /\ idx = [m \in Migrators |-> 0]
    /\ err = [m \in Migrators |-> NoError]
    /\ pre = [m \in Migrators |-> NoSnapshot]
    /\ trace = [m \in Migrators |-> <<>>]
    /\ prev = [m \in Migrators |-> NoPrev]

\* a constructed migrator with any loaded set, on any version table
StatusInit ==
    /\ directory \in Directories
    /\ otherSchema = FALSE
    /\ OnStart = [m \in Migrators |-> NoCallback]
    /\ files = SampleFiles(directory)
    /\ tableExists = TRUE
    /\ versionTable \in {v \in SeqsUpTo(Names, MaxName) :
                            \A i \in 1..Len(v) : \A j \in 1..Len(v) : v[i] = v[j] => i = j}
    /\ objects = Range(versionTable)
    /\ lockHeld = [m \in Migrators |-> FALSE]
    /\ tx = [m \in Migrators |-> NoTx]
    /\ pc = [m \in Migrators |-> IF m = "m1" THEN "idle" ELSE "off"]
    /\ \E S \in (SUBSET Names) \ {{}} :
          Migrations = [m \in Migrators |->
              IF m = "m1"
              THEN [n \in S |-> [Sequence |-> Cardinality({k \in S : k <= n}), Name |-> n, UpSQL |-> CreateSQL(n), DownSQL |-> directory[n]]]
              ELSE NoMigrations]
    /\ DisableTx = [m \in Migrators |-> FALSE]
    /\ fake = [m \in Migrators |-> FALSE]
    /\ op = [m \in Migrators |-> "none"]
    /\ targetMigration = [m \in Migrators |-> 0]
    /\ direction = [m \in Migrators |-> "none"]
    /\ migrationsToApply = [m \in Migrators |-> <<>>]
    /\ idx = [m \in Migrators |-> 0]
    /\ err = [m \in Migrators |-> NoError]
    /\ pre = [m \in Migrators |-> NoSnapshot]
    /\ trace = [m \in Migrators |-> <<>>]
    /\ prev = [m \in Migrators |-> NoPrev]

\* a constructed migrator and a directory whose file names have prefixes of
\* different widths
PrefixInit ==
    /\ directory \in Directories
    /\ otherSchema = FALSE
    /\ OnStart = [m \in Migrators |-> NoCallback]
    /\ files \in PrefixedFiles(directory)
    /\ tableExists = TRUE
    /\ versionTable = <<>>
    /\ objects = {}
    /\ lockHeld = [m \in Migrators |-> FALSE]
    /\ tx = [m \in Migrators |-> NoTx]
    /\ pc = [m \in Migrators |-> IF m = "m1" THEN "idle" ELSE "off"]
    /\ Migrations = [m \in Migrators |-> NoMigrations]
    /\ DisableTx = [m \in Migrators |-> FALSE]
    /\ fake = [m \in Migrators |-> FALSE]
    /\ op = [m \in Migrators |-> "none"]
    /\ targetMigration = [m \in Migrators |-> 0]
    /\ direction = [m \in Migrators |-> "none"]
    /\ migrationsToApply = [m \in Migrators |-> <<>>]
    /\ idx = [m \in Migrators |-> 0]
    /\ err = [m \in Migrators |-> NoError]
    /\ pre = [m \in Migrators |-> NoSnapshot]
    /\ trace = [m \in Migrators |-> <<>>]
    /\ prev = [m \in Migrators |-> NoPrev]

\* a constructed migrator and a directory of one file with any text
ParseInit ==
    /\ directory \in Directories
    /\ otherSchema = FALSE
    /\ OnStart = [m \in Migrators |-> NoCallback]
    /\ files \in {<<f>> : f \in FileTexts}
    /\ tableExists = TRUE
    /\ versionTable = <<>>
    /\ objects = {}
    /\ lockHeld = [m \in Migrators |-> FALSE]
    /\ tx = [m \in Migrators |-> NoTx]
    /\ pc = [m \in Migrators |-> IF m = "m1" THEN "idle" ELSE "off"]
    /\ Migrations = [m \in Migrators |-> NoMigrations]
    /\ DisableTx = [m \in Migrators |-> FALSE]
    /\ fake = [m \in Migrators |-> FALSE]
    /\ op = [m \in Migrators |-> "none"]
    /\ targetMigration = [m \in Migrators |-> 0]
    /\ direction = [m \in Migrators |-> "none"]
    /\ migrationsToApply = [m \in Migrators |-> <<>>]
    /\ idx = [m \in Migrators |-> 0]
    /\ err = [m \in Migrators |-> NoError]
    /\ pre = [m \in Migrators |-> NoSnapshot]
    /\ trace = [m \in Migrators |-> <<>>]
    /\ prev = [m \in Migrators |-> NoPrev]

\* two sessions about to construct their migrators; the database is fresh or
\* holds the version table of earlier runs
FirstRunInit ==
    /\ directory \in Directories
    /\ otherSchema \in BOOLEAN
    /\ OnStart = [m \in Migrators |-> NoCallback]
    /\ files = SampleFiles(directory)
    /\ tableExists \in BOOLEAN
    /\ versionTable \in (IF tableExists THEN {<<>>, <<1>>, <<2, 1>>} ELSE {<<>>})
    /\ objects = Range(versionTable)
    /\ lockHeld = [m \in Migrators |-> FALSE]
    /\ tx = [m \in Migrators |-> NoTx]
    /\ pc = [m \in Migrators |-> "new"]
    /\ Migrations = [m \in Migrators |-> NoMigrations]
    /\ DisableTx = [m \in Migrators |-> FALSE]
    /\ fake = [m \in Migrators |-> FALSE]
    /\ op = [m \in Migrators |-> "none"]
    /\ targetMigration = [m \in Migrators |-> 0]
    /\ direction = [m \in Migrators |-> "none"]
    /\ migrationsToApply = [m \in Migrators |-> <<>>]
    /\ idx = [m \in Migrators |-> 0]
    /\ err = [m \in Migrators |-> NoError]
    /\ pre = [m \in Migrators |-> NoSnapshot]
    /\ trace = [m \in Migrators |-> <<>>]
    /\ prev = [m \in Migrators |-> NoPrev]

\* two constructed migrators on their own connections, the version table created
ConcInit ==
    /\ directory \in Directories
    /\ otherSchema = FALSE
    /\ OnStart = [m \in Migrators |-> NoCallback]
    /\ files = SampleFiles(directory)
    /\ tableExists = TRUE
    /\ versionTable = <<>>
    /\ objects = {}
    /\ lockHeld = [m \in Migrators |-> FALSE]
    /\ tx = [m \in Migrators |-> NoTx]
    /\ pc = [m \in Migrators |-> "idle"]
    /\ Migrations = [m \in Migrators |-> LoadAll]
    /\ DisableTx \in [Migrators -> BOOLEAN]
    /\ fake = [m \in Migrators |-> FALSE]
    /\ op = [m \in Migrators |-> "none"]
    /\ targetMigration = [m \in Migrators |-> 0]
    /\ direction = [m \in Migrators |-> "none"]
    /\ migrationsToApply = [m \in Migrators |-> <<>>]
    /\ idx = [m \in Migrators |-> 0]
    /\ err = [m \in Migrators |-> NoError]
    /\ pre = [m \in Migrators |-> NoSnapshot]
    /\ trace = [m \in Migrators |-> <<>>]
    /\ prev = [m \in Migrators |-> NoPrev]

\* two sessions on one database: the first has loaded the directory, the second
\* builds its migration set by hand, in any order
MixedInit ==
    /\ directory \in Directories
    /\ otherSchema = FALSE
    /\ OnStart = [m \in Migrators |-> NoCallback]
    /\ files = SampleFiles(directory)
    /\ tableExists = TRUE
    /\ versionTable = <<>>
    /\ objects = {}
    /\ lockHeld = [m \in Migrators |-> FALSE]
    /\ tx = [m \in Migrators |-> NoTx]
    /\ pc = [m \in Migrators |-> "idle"]
    /\ Migrations = [m \in Migrators |-> IF m = "m1" THEN LoadAll ELSE NoMigrations]
    /\ DisableTx = [m \in Migrators |-> FALSE]
    /\ fake = [m \in Migrators |-> FALSE]
    /\ op = [m \in Migrators |-> "none"]
    /\ targetMigration = [m \in Migrators |-> 0]
    /\ direction = [m \in Migrators |-> "none"]
    /\ migrationsToApply = [m \in Migrators |-> <<>>]
    /\ idx = [m \in Migrators |-> 0]
    /\ err = [m \in Migrators |-> NoError]
    /\ pre = [m \in Migrators |-> NoSnapshot]
    /\ trace = [m \in Migrators |-> <<>>]
    /\ prev = [m \in Migrators |-> NoPrev]

\* ---------------------------------------------------------------- actions
\* A return hands the result to the caller at once: no step of any session
\* lies between a call's last deferred step and its return.
Returning == \E m \in Migrators : pc[m] = "returned"

\* SELECT EXISTS (SELECT FROM information_schema.tables WHERE table_name = $1):
\* the schema of the table is not part of the condition
NameExists == tableExists \/ otherSchema

\* create table if not exists: the rows of a table that exists are kept
CreateIfNotExists(exists, rows) == IF exists THEN rows ELSE <<>>

\* NewMigratorEx on a fresh connection that returns without error, in one step:
\* ensureSchemaVersionTableExists takes the advisory lock, asks whether the
\* table exists (a failed query counts as no), creates it if not, and releases
\* the lock.
NewMigratorEx(m, disableTx) ==
    /\ ~Returning
    /\ pc[m] \in {"new", "idle"}
    /\ LockFree(m)
    /\ \E exists \in {NameExists, FALSE} :
          IF exists
          THEN UNCHANGED <<tableExists, versionTable>>
          ELSE /\ tableExists' = TRUE
               /\ versionTable' = CreateIfNotExists(tableExists, versionTable)
    /\ lockHeld' = [lockHeld EXCEPT ![m] = FALSE]
    /\ Migrations' = [Migrations EXCEPT ![m] = NoMigrations]
    /\ DisableTx' = [DisableTx EXCEPT ![m] = disableTx]
    /\ fake' = [fake EXCEPT ![m] = FALSE]
    /\ pc' = [pc EXCEPT ![m] = "idle"]
    /\ prev' = Touch(m, NoPrev)
    /\ OnStart' = [OnStart EXCEPT ![m] = NoCallback]
    /\ UNCHANGED <<directory, otherSchema, files, objects, tx, callVars>>

\* ---- NewMigratorEx step by step, for migrators constructed side by side
\* m = &Migrator{...}; the call of ensureSchemaVersionTableExists begins
NewMigratorExCall(m, disableTx) ==
    /\ ~Returning
    /\ pc[m] \in {"new", "idle"}
    /\ op' = [op EXCEPT ![m] = "NewMigratorEx"]
    /\ Migrations' = [Migrations EXCEPT ![m] = NoMigrations]
    /\ DisableTx' = [DisableTx EXCEPT ![m] = disableTx]
    /\ fake' = [fake EXCEPT ![m] = FALSE]
    /\ pc' = [pc EXCEPT ![m] = "ensure_acquire"]
    /\ prev' = [prev EXCEPT ![m] = NoPrev]
    /\ OnStart' = [OnStart EXCEPT ![m] = NoCallback]
    /\ UNCHANGED <<directory, otherSchema, files, dbVars, lockHeld, tx, targetMigration, direction,
                   migrationsToApply, idx, err, pre, trace>>

\* the lock request returns at once, whether or not another session holds the lock
ensureAcquire_NoWait(m) ==
    /\ ~Returning
    /\ pc[m] = "ensure_acquire"
    /\ \/ /\ lockHeld' = [lockHeld EXCEPT ![m] = TRUE]
          /\ pre' = [pre EXCEPT ![m] = DBRead(m)]
          /\ Log(m, "lock", 0)
          /\ pc' = [pc EXCEPT ![m] = "ensure_check"]
          /\ UNCHANGED err
       \/ /\ err' = [err EXCEPT ![m] = Error("ErrLock")]
          /\ pre' = [pre EXCEPT ![m] = DBRead(m)]
          /\ Log(m, "lockfail", 0)
          /\ pc' = [pc EXCEPT ![m] = "returned"]
          /\ UNCHANGED lockHeld
    /\ UNCHANGED <<directory, otherSchema, OnStart, files, dbVars, tx, Migrations, DisableTx, fake, op, targetMigration,
                   direction, migrationsToApply, idx, prev>>

\* err = m.acquireAdvisoryLock(ctx) of ensureSchemaVersionTableExists
ensureAcquire(m) ==
    /\ ~Returning
    /\ pc[m] = "ensure_acquire"
    /\ \/ /\ LockFree(m)
          /\ lockHeld' = [lockHeld EXCEPT ![m] = TRUE]
          /\ pre' = [pre EXCEPT ![m] = DBRead(m)]
          /\ Log(m, "lock", 0)
          /\ pc' = [pc EXCEPT ![m] = "ensure_check"]
          /\ UNCHANGED err
       \/ /\ err' = [err EXCEPT ![m] = Error("ErrLock")]
          /\ pre' = [pre EXCEPT ![m] = DBRead(m)]
          /\ Log(m, "lockfail", 0)
          /\ pc' = [pc EXCEPT ![m] = "returned"]
          /\ UNCHANGED lockHeld
    /\ UNCHANGED <<directory, otherSchema, OnStart, files, dbVars, tx, Migrations, DisableTx, fake, op, targetMigration,
                   direction, migrationsToApply, idx, prev>>

\* exists := m.isMigrationTableExists(ctx): a failed query gives false
isMigrationTableExists(m) ==
    /\ ~Returning
    /\ pc[m] = "ensure_check"
    /\ \/ /\ Log(m, IF NameExists THEN "present" ELSE "absent", 0)
          /\ pc' = [pc EXCEPT ![m] = IF NameExists THEN "ensure_unlock" ELSE "ensure_create"]
       \/ /\ Log(m, "checkfail", 0)
          /\ pc' = [pc EXCEPT ![m] = "ensure_create"]
    /\ UNCHANGED <<directory, otherSchema, OnStart, files, dbVars, lockHeld, tx, Migrations, DisableTx, fake, op,
                   targetMigration, direction, migrationsToApply, idx, err, pre, prev>>

\* err = m.createMigrationTable(ctx)
createMigrationTable(m) ==
    /\ ~Returning
    /\ pc[m] = "ensure_create"
    /\ \/ /\ tableExists' = TRUE
          /\ versionTable' = CreateIfNotExists(tableExists, versionTable)
          /\ Log(m, IF tableExists THEN "kept" ELSE "created", 0)
          /\ UNCHANGED err
       \/ /\ err' = [err EXCEPT ![m] = Error("ErrCreate")]
          /\ Log(m, "createfail", 0)
          /\ UNCHANGED <<tableExists, versionTable>>
    /\ pc' = [pc EXCEPT ![m] = "ensure_unlock"]
    /\ UNCHANGED <<directory, otherSchema, OnStart, files, objects, lockHeld, tx, Migrations, DisableTx, fake, op,
                   targetMigration, direction, migrationsToApply, idx, pre, prev>>

\* the deferred releaseAdvisoryLock of ensureSchemaVersionTableExists
ensureRelease(m) ==
    /\ ~Returning
    /\ pc[m] = "ensure_unlock"
    /\ \/ /\ lockHeld' = [lockHeld EXCEPT ![m] = FALSE]
          /\ Log(m, "unlock", 0)
          /\ UNCHANGED err
       \/ /\ Log(m, "unlockfail", 0)
          /\ err' = [err EXCEPT ![m] = IF @ = NoError THEN Error("ErrUnlock") ELSE @]
          /\ UNCHANGED lockHeld
    /\ pc' = [pc EXCEPT ![m] = "returned"]
    /\ UNCHANGED <<directory, otherSchema, OnStart, files, dbVars, tx, Migrations, DisableTx, fake, op, targetMigration,
                   direction, migrationsToApply, idx, pre, prev>>

\* EnableFake, as the command line calls it between construction and Migrate
EnableFake(m) ==
    /\ ~Returning
    /\ pc[m] = "idle"
    /\ ~fake[m]
    /\ fake' = [fake EXCEPT ![m] = TRUE]
    /\ prev' = [prev EXCEPT ![m] = NoPrev]
    /\ UNCHANGED <<directory, otherSchema, OnStart, files, dbVars, lockHeld, tx, pc, Migrations, DisableTx, callVars>>

\* the map after m.AppendMigration for the first k files of the directory, in
\* file name order
LoadedFiles(migs, k) ==
    [n \in (DOMAIN migs) \cup (1..k) |->
        IF n \in 1..k
        THEN ParseFile(n, files[n], Cardinality((DOMAIN migs) \cup (1..(n - 1))) + 1)
        ELSE migs[n]]

\* what the environment may refuse during a load: listing the directory,
\* reading a file, evaluating the template of its up or of its down part
LoadErrors == {"ErrReadDir", "ErrReadFile", "ErrTemplateUp", "ErrTemplateDown"}

\* no failure of the environment
NoFault == [at |-> 0, cause |-> "none"]

\* the first file whose up part holds no SQL, or one past the last file
RECURSIVE FirstWithoutSQL(_, _)
FirstWithoutSQL(fs, i) ==
    IF i > Len(fs) \/ ~containsSQL(fs[i].up) THEN i ELSE FirstWithoutSQL(fs, i + 1)

\* a directory without matching files is loaded as the empty set
LoadResult_EmptyOk(fs, fault) ==
    LET bad == FirstWithoutSQL(fs, 1)
    IN IF fault.cause = "ErrReadDir" THEN [err |-> Error("ErrReadDir"), loaded |-> 0]
       ELSE IF fault.at \in 1..Len(fs)
               /\ (fault.at < bad \/ (fault.at = bad /\ fault.cause # "ErrTemplateDown"))
       THEN [err |-> Error(fault.cause), loaded |-> fault.at - 1]
       ELSE IF bad <= Len(fs)
       THEN [err |-> Error("ErrNoFwMigration"), loaded |-> bad - 1]
       ELSE [err |-> NoError, loaded |-> Len(fs)]

\* the result of LoadMigrations on the files fs, and how many files it appended
LoadResult(fs, fault) ==
    LET bad == FirstWithoutSQL(fs, 1)
    IN IF fault.cause = "ErrReadDir" THEN [err |-> Error("ErrReadDir"), loaded |-> 0]
       ELSE IF Len(fs) = 0 THEN [err |-> Error("NoMigrationsFoundError"), loaded |-> 0]
       ELSE IF fault.at \in 1..Len(fs)
               /\ (fault.at < bad \/ (fault.at = bad /\ fault.cause # "ErrTemplateDown"))
       THEN [err |-> Error(fault.cause), loaded |-> fault.at - 1]
       ELSE IF bad <= Len(fs)
       THEN [err |-> Error("ErrNoFwMigration"), loaded |-> bad - 1]
       ELSE [err |-> NoError, loaded |-> Len(fs)]

\* m.LoadMigrations(path): the files are read, checked and appended one by one,
\* and the load returns at the first file that fails
LoadMigrations(m, fault) ==
    /\ ~Returning
    /\ pc[m] = "idle"
    /\ fault.cause = "none" <=> fault.at = 0
    /\ fault.cause = "ErrReadDir" => fault.at = 1
    /\ LET r == LoadResult(files, fault)
       IN /\ Migrations' = [Migrations EXCEPT ![m] = LoadedFiles(@, r.loaded)]
          /\ err' = [err EXCEPT ![m] = r.err]
    /\ op' = [op EXCEPT ![m] = "LoadMigrations"]
    /\ pc' = [pc EXCEPT ![m] = "returned"]
    /\ prev' = [prev EXCEPT ![m] = NoPrev]
    /\ UNCHANGED <<directory, otherSchema, OnStart, files, dbVars, lockHeld, tx, DisableTx, fake,
                   targetMigration, direction, migrationsToApply, idx, pre, trace>>

\* the new command of the CLI: the file is created unless one of that name
\* exists (os.O_CREATE|os.O_EXCL)
NewMigration(title) ==
    /\ ~Returning
    /\ Len(files) < MaxFiles
    /\ LET f == [prefix |-> Sprintf03d(NextPrefix(files)), title |-> title,
                 up |-> << <<"c">> >>, delimiter |-> TRUE, down |-> << <<"c">> >>]
       IN files' = IF \E g \in Range(files) : FullName(g) = FullName(f)
                   THEN files
                   ELSE InsertSorted(files, f)
    /\ UNCHANGED <<directory, otherSchema, OnStart, dbVars, lockHeld, tx, pc, Migrations,
                   DisableTx, fake, callVars, prev>>

\* behindCount := len(migrator.Migrations) - len(migrationVersion), and the
\* status line printed for it
StatusLine(migs, migrationVersion) ==
    LET behindCount == Cardinality(DOMAIN migs) - Len(migrationVersion)
    IN IF behindCount = 0 THEN Event("up to date", 0) ELSE Event("pending", behindCount)

\* the status command of the CLI, after the migrator is constructed and loaded:
\* it reads the version table and prints the status line
Status(m) ==
    /\ ~Returning
    /\ pc[m] = "idle"
    /\ Migrations[m] # NoMigrations
    /\ op' = [op EXCEPT ![m] = "Status"]
    /\ pre' = [pre EXCEPT ![m] = DBRead(m)]
    /\ \/ /\ err' = [err EXCEPT ![m] = Error("ErrRead")]
          /\ trace' = [trace EXCEPT ![m] = <<Event("readfail", 0)>>]
       \/ /\ trace' = [trace EXCEPT ![m] =
                 <<Event("read", 0), StatusLine(Migrations[m], GetCurrentVersion(m))>>]
          /\ UNCHANGED err
    /\ pc' = [pc EXCEPT ![m] = "returned"]
    /\ prev' = [prev EXCEPT ![m] = NoPrev]
    /\ UNCHANGED <<directory, otherSchema, OnStart, files, dbVars, lockHeld, tx, Migrations,
                   DisableTx, fake, targetMigration, direction, migrationsToApply, idx>>

\* migrator.OnStart = func(sequence int32, name, direction, sql string) {...}
SetOnStart(m) ==
    /\ ~Returning
    /\ pc[m] = "idle"
    /\ ~OnStart[m].set
    /\ OnStart' = [OnStart EXCEPT ![m].set = TRUE]
    /\ prev' = [prev EXCEPT ![m] = NoPrev]
    /\ UNCHANGED <<directory, otherSchema, files, dbVars, lockHeld, tx, pc, Migrations, DisableTx, fake, callVars>>

\* name sorts after every loaded name: the order in which LoadMigrations feeds
\* the sorted file names to AppendMigration
InFileOrder(m, name) == \A k \in DOMAIN Migrations[m] : k < name

AppendMigration(m, name, downSQL) ==
    /\ ~Returning
    /\ pc[m] = "idle"
    /\ Migrations' = [Migrations EXCEPT ![m] =
           [n \in (DOMAIN @) \cup {name} |->
               IF n = name
               THEN [Sequence |-> Cardinality(DOMAIN @) + 1, Name |-> name,
                     UpSQL |-> CreateSQL(name), DownSQL |-> downSQL]
               ELSE @[n]]]
    /\ prev' = [prev EXCEPT ![m] = NoPrev]
    /\ UNCHANGED <<directory, otherSchema, OnStart, files, dbVars, lockHeld, tx, pc, DisableTx, fake, callVars>>

\* Migrate that takes the first pending name for its target
Migrate_ToFirstPending(m) ==
    /\ ~Returning
    /\ pc[m] = "idle"
    /\ op' = [op EXCEPT ![m] = "Migrate"]
    /\ pre' = [pre EXCEPT ![m] = DBRead(m)]
    /\ \/ /\ err' = [err EXCEPT ![m] = Error("ErrRead")]
          /\ Log(m, "readfail", 0)
          /\ pc' = [pc EXCEPT ![m] = "returned"]
          /\ UNCHANGED targetMigration
       \/ LET migrations == MigrationsToApply(GetCurrentVersion(m), Migrations[m])
          IN /\ Log(m, "read", 0)
             /\ IF Len(migrations) = 0
                THEN /\ err' = [err EXCEPT ![m] = NoError]
                     /\ pc' = [pc EXCEPT ![m] = "returned"]
                     /\ UNCHANGED targetMigration
                ELSE /\ targetMigration' = [targetMigration EXCEPT ![m] = migrations[1]]
                     /\ pc' = [pc EXCEPT ![m] = "acquire"]
                     /\ UNCHANGED err
    /\ prev' = [prev EXCEPT ![m] = IF @.kind = "migrated" THEN @ ELSE NoPrev]
    /\ UNCHANGED <<directory, otherSchema, OnStart, files, dbVars, lockHeld, tx, Migrations, DisableTx, fake, direction,
                   migrationsToApply, idx>>

\* Migrate: MigrationsToApply is read before any lock is taken
Migrate(m) ==
    /\ ~Returning
    /\ pc[m] = "idle"
    /\ op' = [op EXCEPT ![m] = "Migrate"]
    /\ pre' = [pre EXCEPT ![m] = DBRead(m)]
    /\ \/ \* the version read fails
          /\ err' = [err EXCEPT ![m] = Error("ErrRead")]
          /\ Log(m, "readfail", 0)
          /\ pc' = [pc EXCEPT ![m] = "returned"]
          /\ UNCHANGED targetMigration
       \/ LET migrations == MigrationsToApply(GetCurrentVersion(m), Migrations[m])
          IN /\ Log(m, "read", 0)
             /\ IF Len(migrations) = 0
                THEN /\ err' = [err EXCEPT ![m] = NoError]
                     /\ pc' = [pc EXCEPT ![m] = "returned"]
                     /\ UNCHANGED targetMigration
                ELSE /\ targetMigration' = [targetMigration EXCEPT ![m] =
                            migrations[Len(migrations)]]
                     /\ pc' = [pc EXCEPT ![m] = "acquire"]
                     /\ UNCHANGED err
    /\ prev' = [prev EXCEPT ![m] = IF @.kind = "migrated" THEN @ ELSE NoPrev]
    /\ UNCHANGED <<directory, otherSchema, OnStart, files, dbVars, lockHeld, tx, Migrations, DisableTx, fake, direction,
                   migrationsToApply, idx>>

\* target is where the previous, forward call of m started from: the head it
\* found, or on an empty table the first name it applied
BackToStart(m, target) ==
    IF prev[m].versionTable = <<>>
    THEN versionTable # <<>> /\ target = versionTable[1]
    ELSE target = prev[m].versionTable[Len(prev[m].versionTable)]

MigrateTo(m, target) ==
    /\ ~Returning
    /\ pc[m] = "idle"
    /\ op' = [op EXCEPT ![m] = "MigrateTo"]
    /\ targetMigration' = [targetMigration EXCEPT ![m] = target]
    /\ pc' = [pc EXCEPT ![m] = "acquire"]
    /\ prev' = [prev EXCEPT ![m] = IF @.kind = "forward" /\ BackToStart(m, target) THEN @ ELSE NoPrev]
    /\ UNCHANGED <<directory, otherSchema, OnStart, files, dbVars, lockHeld, tx, Migrations, DisableTx, fake, direction,
                   migrationsToApply, idx, err, pre, trace>>

\* the lock request returns at once, whether or not another session holds the lock
acquireAdvisoryLock_NoWait(m) ==
    /\ ~Returning
    /\ pc[m] = "acquire"
    /\ \/ /\ lockHeld' = [lockHeld EXCEPT ![m] = TRUE]
          /\ pre' = [pre EXCEPT ![m] = DBRead(m)]
          /\ Log(m, "lock", 0)
          /\ pc' = [pc EXCEPT ![m] = "direction"]
          /\ UNCHANGED err
       \/ /\ err' = [err EXCEPT ![m] = Error("ErrLock")]
          /\ pre' = [pre EXCEPT ![m] = DBRead(m)]
          /\ Log(m, "lockfail", 0)
          /\ pc' = [pc EXCEPT ![m] = "returned"]
          /\ UNCHANGED lockHeld
    /\ UNCHANGED <<directory, otherSchema, OnStart, files, dbVars, tx, Migrations, DisableTx, fake, op, targetMigration, direction,
                   migrationsToApply, idx, prev>>

\* acquireAdvisoryLock: select pg_advisory_lock($1) blocks while another session holds it
\* the deferred release is registered before the lock is requested
acquireAdvisoryLock_Deferred(m) ==
    /\ ~Returning
    /\ pc[m] = "acquire"
    /\ \/ /\ LockFree(m)
          /\ lockHeld' = [lockHeld EXCEPT ![m] = TRUE]
          /\ pre' = [pre EXCEPT ![m] = DBRead(m)]
          /\ Log(m, "lock", 0)
          /\ pc' = [pc EXCEPT ![m] = "direction"]
          /\ UNCHANGED err
       \/ /\ err' = [err EXCEPT ![m] = Error("ErrLock")]
          /\ pre' = [pre EXCEPT ![m] = DBRead(m)]
          /\ Log(m, "lockfail", 0)
          /\ pc' = [pc EXCEPT ![m] = "unlock"]
          /\ UNCHANGED lockHeld
    /\ UNCHANGED <<directory, otherSchema, OnStart, files, dbVars, tx, Migrations, DisableTx, fake, op, targetMigration, direction,
                   migrationsToApply, idx, prev>>

acquireAdvisoryLock(m) ==
    /\ ~Returning
    /\ pc[m] = "acquire"
    /\ \/ /\ LockFree(m)
          /\ lockHeld' = [lockHeld EXCEPT ![m] = TRUE]
          /\ pre' = [pre EXCEPT ![m] = DBRead(m)]
          /\ Log(m, "lock", 0)
          /\ pc' = [pc EXCEPT ![m] = "direction"]
          /\ UNCHANGED err
       \/ /\ err' = [err EXCEPT ![m] = Error("ErrLock")]
          /\ pre' = [pre EXCEPT ![m] = DBRead(m)]
          /\ Log(m, "lockfail", 0)
          /\ pc' = [pc EXCEPT ![m] = "returned"]
          /\ UNCHANGED lockHeld
    /\ UNCHANGED <<directory, otherSchema, OnStart, files, dbVars, tx, Migrations, DisableTx, fake, op, targetMigration, direction,
                   migrationsToApply, idx, prev>>

\* direction, err := m.GetDirection(ctx, targetMigration)
ResolveDirection(m) ==
    /\ ~Returning
    /\ pc[m] = "direction"
    /\ \/ /\ Fail(m, Error("ErrRead"))
          /\ Log(m, "readfail", 0)
          /\ UNCHANGED direction
       \/ LET d == GetDirection(GetCurrentVersion(m), Migrations[m], targetMigration[m])
          IN /\ direction' = [direction EXCEPT ![m] = d]
             /\ Log(m, "read", 0)
             /\ IF d = NotFound
                THEN Fail(m, MigrationNotFound(targetMigration[m]))
                ELSE /\ pc' = [pc EXCEPT ![m] = "plan"]
                     /\ UNCHANGED err
    /\ UNCHANGED <<directory, otherSchema, OnStart, files, dbVars, lockHeld, tx, Migrations, DisableTx, fake, op, targetMigration,
                   migrationsToApply, idx, pre, prev>>

\* the traversal: MigrationsToApply (Forward) or the reversed applied names before target (Back)
PlanTraversal(m) ==
    /\ ~Returning
    /\ pc[m] = "plan"
    /\ \/ /\ Fail(m, Error("ErrRead"))
          /\ Log(m, "readfail", 0)
          /\ UNCHANGED <<migrationsToApply, idx>>
       \/ /\ Log(m, "read", 0)
          /\ IF direction[m] = Forward
             THEN /\ migrationsToApply' = [migrationsToApply EXCEPT ![m] =
                         MigrationsToApply(GetCurrentVersion(m), Migrations[m])]
                  /\ idx' = [idx EXCEPT ![m] = 1]
                  /\ pc' = [pc EXCEPT ![m] = "begin"]
                  /\ UNCHANGED err
             ELSE IF Position(Reverse(GetCurrentVersion(m)), targetMigration[m]) < 0
             THEN \* slice bounds out of range
                  /\ Fail(m, Error("panic"))
                  /\ UNCHANGED <<migrationsToApply, idx>>
             ELSE /\ migrationsToApply' = [migrationsToApply EXCEPT ![m] =
                         BackTraversal(GetCurrentVersion(m), targetMigration[m])]
                  /\ idx' = [idx EXCEPT ![m] = 1]
                  /\ pc' = [pc EXCEPT ![m] = "begin"]
                  /\ UNCHANGED err
    /\ UNCHANGED <<directory, otherSchema, OnStart, files, dbVars, lockHeld, tx, Migrations, DisableTx, fake, op, targetMigration,
                   direction, pre, prev>>

\* loop head: look the migration up, open its transaction, fire OnStart
BeginMigration(m) ==
    /\ ~Returning
    /\ pc[m] = "begin"
    /\ IF idx[m] > Len(migrationsToApply[m])
       THEN \* the range is exhausted: return nil
            /\ Fail(m, NoError)
            /\ UNCHANGED <<tx, trace, OnStart>>
       ELSE LET currentName == migrationsToApply[m][idx[m]]
            IN IF currentName \notin DOMAIN Migrations[m]
               THEN \* m.Migrations[currentName] is nil: current.UpSQL dereferences it
                    /\ Fail(m, Error("panic"))
                    /\ UNCHANGED <<tx, trace, OnStart>>
               ELSE IF DisableTx[m]
               THEN /\ Log(m, "start", currentName)
                    /\ OnStart' = [OnStart EXCEPT ![m] =
                           FireOnStart(@, Migrations[m][currentName], direction[m])]
                    /\ pc' = [pc EXCEPT ![m] = "exec"]
                    /\ UNCHANGED <<tx, err>>
               ELSE \/ /\ tx' = [tx EXCEPT ![m] = [open |-> TRUE,
                                     versionTable |-> versionTable, objects |-> objects]]
                       /\ trace' = [trace EXCEPT ![m] =
                              @ \o <<Event("begin", currentName), Event("start", currentName)>>]
                       /\ OnStart' = [OnStart EXCEPT ![m] =
                              FireOnStart(@, Migrations[m][currentName], direction[m])]
                       /\ pc' = [pc EXCEPT ![m] = "exec"]
                       /\ UNCHANGED err
                    \/ /\ Fail(m, Error("ErrBegin"))
                       /\ UNCHANGED <<tx, trace, OnStart>>
    /\ UNCHANGED <<directory, otherSchema, files, dbVars, lockHeld, Migrations, DisableTx, fake, op, targetMigration,
                   direction, migrationsToApply, idx, pre, prev>>

\* fake mode is not looked at: every non-empty body is executed
Executes_FakeIgnored(m, sql) == sql # EmptySQL

\* the body is executed if it is not empty and, by the specification of fake
\* mode, the migrator is not in fake mode
Executes(m, sql) == sql # EmptySQL /\ ~fake[m]

\* a failed statement is logged and the loop goes on with the entry
ExecMigration_SkipFailed(m) ==
    /\ ~Returning
    /\ pc[m] = "exec"
    /\ LET currentName == migrationsToApply[m][idx[m]]
           sql == SQLFor(Migrations[m][currentName], direction[m])
       IN IF ~Executes(m, sql)
          THEN /\ pc' = [pc EXCEPT ![m] = "reset"]
               /\ UNCHANGED <<versionTable, objects, tx, err, trace>>
          ELSE \/ /\ Accepted(sql, DBRead(m).objects)
                  /\ DBWrite(m, DBRead(m).versionTable, ExecSQL(sql, DBRead(m).objects))
                  /\ Log(m, "exec", currentName)
                  /\ pc' = [pc EXCEPT ![m] = "reset"]
                  /\ UNCHANGED err
               \/ \E pgError \in BOOLEAN :
                  /\ pc' = [pc EXCEPT ![m] = "reset"]
                  /\ Log(m, IF pgError THEN "execfailpg" ELSE "execfail", currentName)
                  /\ UNCHANGED <<versionTable, objects, tx, err>>
    /\ UNCHANGED <<directory, otherSchema, OnStart, files, tableExists, lockHeld, Migrations, DisableTx, fake, op, targetMigration,
                   direction, migrationsToApply, idx, pre, prev>>

\* if sql != "" { m.conn.Exec(ctx, sql) }
\* the session is not reset after an executed migration
ExecMigration_NoReset(m) ==
    /\ ~Returning
    /\ pc[m] = "exec"
    /\ LET currentName == migrationsToApply[m][idx[m]]
           sql == SQLFor(Migrations[m][currentName], direction[m])
       IN IF ~Executes(m, sql)
          THEN /\ pc' = [pc EXCEPT ![m] = "reset"]
               /\ UNCHANGED <<versionTable, objects, tx, err, trace>>
          ELSE \/ /\ Accepted(sql, DBRead(m).objects)
                  /\ DBWrite(m, DBRead(m).versionTable, ExecSQL(sql, DBRead(m).objects))
                  /\ Log(m, "exec", currentName)
                  /\ pc' = [pc EXCEPT ![m] = "record"]
                  /\ UNCHANGED err
               \/ \E pgError \in BOOLEAN :
                  /\ Fail(m, IF pgError THEN MigrationPgError(sql) ELSE Error("ErrExec"))
                  /\ Log(m, IF pgError THEN "execfailpg" ELSE "execfail", currentName)
                  /\ UNCHANGED <<versionTable, objects, tx>>
    /\ UNCHANGED <<directory, otherSchema, OnStart, files, tableExists, lockHeld, Migrations, DisableTx, fake, op, targetMigration,
                   direction, migrationsToApply, idx, pre, prev>>

\* the version row is written before the result of Exec is looked at
ExecMigration_MarkOnFail(m) ==
    /\ ~Returning
    /\ pc[m] = "exec"
    /\ LET currentName == migrationsToApply[m][idx[m]]
           sql == SQLFor(Migrations[m][currentName], direction[m])
       IN IF ~Executes(m, sql)
          THEN /\ pc' = [pc EXCEPT ![m] = "reset"]
               /\ UNCHANGED <<versionTable, objects, tx, err, trace>>
          ELSE \/ /\ Accepted(sql, DBRead(m).objects)
                  /\ DBWrite(m, DBRead(m).versionTable, ExecSQL(sql, DBRead(m).objects))
                  /\ Log(m, "exec", currentName)
                  /\ pc' = [pc EXCEPT ![m] = "reset"]
                  /\ UNCHANGED err
               \/ \E pgError \in BOOLEAN :
                  /\ Fail(m, IF pgError THEN MigrationPgError(sql) ELSE Error("ErrExec"))
                  /\ Log(m, IF pgError THEN "execfailpg" ELSE "execfail", currentName)
                  /\ DBWrite(m, IF direction[m] = Forward
                                THEN markMigrationApplied(DBRead(m).versionTable, currentName)
                                ELSE markMigrationUnapplied(DBRead(m).versionTable, currentName),
                             DBRead(m).objects)
    /\ UNCHANGED <<directory, otherSchema, OnStart, files, tableExists, lockHeld, Migrations, DisableTx, fake, op, targetMigration,
                   direction, migrationsToApply, idx, pre, prev>>

ExecMigration(m) ==
    /\ ~Returning
    /\ pc[m] = "exec"
    /\ LET currentName == migrationsToApply[m][idx[m]]
           sql == SQLFor(Migrations[m][currentName], direction[m])
       IN IF ~Executes(m, sql)
          THEN /\ pc' = [pc EXCEPT ![m] = "reset"]
               /\ UNCHANGED <<versionTable, objects, tx, err, trace>>
          ELSE \/ /\ Accepted(sql, DBRead(m).objects)
                  /\ DBWrite(m, DBRead(m).versionTable, ExecSQL(sql, DBRead(m).objects))
                  /\ Log(m, "exec", currentName)
                  /\ pc' = [pc EXCEPT ![m] = "reset"]
                  /\ UNCHANGED err
               \/ \E pgError \in BOOLEAN :
                  /\ Fail(m, IF pgError THEN MigrationPgError(sql) ELSE Error("ErrExec"))
                  /\ Log(m, IF pgError THEN "execfailpg" ELSE "execfail", currentName)
                  /\ UNCHANGED <<versionTable, objects, tx>>
    /\ UNCHANGED <<directory, otherSchema, OnStart, files, tableExists, lockHeld, Migrations, DisableTx, fake, op, targetMigration,
                   direction, migrationsToApply, idx, pre, prev>>

\* m.conn.Exec(ctx, "reset all"): the result is discarded
ResetAll(m) ==
    /\ ~Returning
    /\ pc[m] = "reset"
    /\ Log(m, "reset", migrationsToApply[m][idx[m]])
    /\ pc' = [pc EXCEPT ![m] = "record"]
    /\ UNCHANGED <<directory, otherSchema, OnStart, files, dbVars, lockHeld, tx, Migrations, DisableTx, fake, op, targetMigration,
                   direction, migrationsToApply, idx, err, pre, prev>>

\* markMigrationApplied (Forward) or markMigrationUnapplied (Back)
\* a statement has failed inside m's open transaction: the server refuses every
\* further statement of that transaction
Aborted(m) == tx[m].open /\ trace[m][Len(trace[m])].ev = "resetfail"

\* m.conn.Exec(ctx, "reset all") returns an error: it is discarded like any
\* other result of that call and the run goes on to the version record
ResetAllFails(m) ==
    /\ ~Returning
    /\ pc[m] = "reset"
    /\ Log(m, "resetfail", migrationsToApply[m][idx[m]])
    /\ pc' = [pc EXCEPT ![m] = "record"]
    /\ UNCHANGED <<directory, otherSchema, OnStart, files, dbVars, lockHeld, tx, Migrations, DisableTx, fake, op, targetMigration,
                   direction, migrationsToApply, idx, err, pre, prev>>

RecordVersion(m) ==
    /\ ~Returning
    /\ pc[m] = "record"
    /\ LET currentName == migrationsToApply[m][idx[m]]
           rows == DBRead(m).versionTable
       IN \/ /\ ~Aborted(m)
             /\ DBWrite(m, IF direction[m] = Forward
                           THEN markMigrationApplied(rows, currentName)
                           ELSE markMigrationUnapplied(rows, currentName),
                        DBRead(m).objects)
             /\ Log(m, "record", currentName)
             /\ pc' = [pc EXCEPT ![m] = "commit"]
             /\ UNCHANGED err
          \/ /\ Fail(m, Error("ErrRecord"))
             /\ Log(m, "recordfail", currentName)
             /\ UNCHANGED <<versionTable, objects, tx>>
    /\ prev' = Touch(m, prev[m])
    /\ UNCHANGED <<directory, otherSchema, OnStart, files, tableExists, lockHeld, Migrations, DisableTx, fake, op, targetMigration,
                   direction, migrationsToApply, idx, pre>>

\* tx.Commit, then the test of targetMigration == currentName
\* the traversal goes on after the target
CommitMigration_PastTarget(m) ==
    /\ ~Returning
    /\ pc[m] = "commit"
    /\ LET currentName == migrationsToApply[m][idx[m]]
           Done == IF FALSE
                   THEN /\ Fail(m, NoError)
                        /\ UNCHANGED idx
                   ELSE /\ idx' = [idx EXCEPT ![m] = @ + 1]
                        /\ pc' = [pc EXCEPT ![m] = "begin"]
                        /\ UNCHANGED err
       IN IF DisableTx[m]
          THEN /\ Done
               /\ UNCHANGED <<versionTable, objects, tx, trace>>
          ELSE \/ /\ versionTable' = tx[m].versionTable
                  /\ objects' = tx[m].objects
                  /\ tx' = [tx EXCEPT ![m] = NoTx]
                  /\ Log(m, "commit", currentName)
                  /\ Done
               \/ \* the commit fails: the database aborts the transaction
                  /\ tx' = [tx EXCEPT ![m] = NoTx]
                  /\ Log(m, "commitfail", currentName)
                  /\ Fail(m, Error("ErrCommit"))
                  /\ UNCHANGED <<versionTable, objects, idx>>
    /\ UNCHANGED <<directory, otherSchema, OnStart, files, tableExists, lockHeld, Migrations, DisableTx, fake, op, targetMigration,
                   direction, migrationsToApply, pre, prev>>

\* only the transaction of the last entry is committed
CommitMigration_Batched(m) ==
    /\ ~Returning
    /\ pc[m] = "commit"
    /\ LET currentName == migrationsToApply[m][idx[m]]
           Done == IF targetMigration[m] = currentName
                   THEN /\ Fail(m, NoError)
                        /\ UNCHANGED idx
                   ELSE /\ idx' = [idx EXCEPT ![m] = @ + 1]
                        /\ pc' = [pc EXCEPT ![m] = "begin"]
                        /\ UNCHANGED err
       IN IF DisableTx[m] \/ targetMigration[m] # currentName
          THEN /\ Done
               /\ UNCHANGED <<versionTable, objects, tx, trace>>
          ELSE \/ /\ versionTable' = tx[m].versionTable
                  /\ objects' = tx[m].objects
                  /\ tx' = [tx EXCEPT ![m] = NoTx]
                  /\ Log(m, "commit", currentName)
                  /\ Done
               \/ \* the commit fails: the database aborts the transaction
                  /\ tx' = [tx EXCEPT ![m] = NoTx]
                  /\ Log(m, "commitfail", currentName)
                  /\ Fail(m, Error("ErrCommit"))
                  /\ UNCHANGED <<versionTable, objects, idx>>
    /\ UNCHANGED <<directory, otherSchema, OnStart, files, tableExists, lockHeld, Migrations, DisableTx, fake, op, targetMigration,
                   direction, migrationsToApply, pre, prev>>

CommitMigration(m) ==
    /\ ~Returning
    /\ pc[m] = "commit"
    /\ LET currentName == migrationsToApply[m][idx[m]]
           Done == IF targetMigration[m] = currentName
                   THEN /\ Fail(m, NoError)
                        /\ UNCHANGED idx
                   ELSE /\ idx' = [idx EXCEPT ![m] = @ + 1]
                        /\ pc' = [pc EXCEPT ![m] = "begin"]
                        /\ UNCHANGED err
       IN IF DisableTx[m]
          THEN /\ Done
               /\ UNCHANGED <<versionTable, objects, tx, trace>>
          ELSE \/ /\ versionTable' = tx[m].versionTable
                  /\ objects' = tx[m].objects
                  /\ tx' = [tx EXCEPT ![m] = NoTx]
                  /\ Log(m, "commit", currentName)
                  /\ Done
               \/ \* the commit fails: the database aborts the transaction
                  /\ tx' = [tx EXCEPT ![m] = NoTx]
                  /\ Log(m, "commitfail", currentName)
                  /\ Fail(m, Error("ErrCommit"))
                  /\ UNCHANGED <<versionTable, objects, idx>>
    /\ UNCHANGED <<directory, otherSchema, OnStart, files, tableExists, lockHeld, Migrations, DisableTx, fake, op, targetMigration,
                   direction, migrationsToApply, pre, prev>>

\* the deferred tx.Rollback calls run first (last deferred, first run)
\* the deferred rollback is left to run after the deferred release
DeferredRollback_AfterUnlock(m) ==
    /\ ~Returning
    /\ pc[m] = "rollback"
    /\ pc' = [pc EXCEPT ![m] = "unlock"]
    /\ UNCHANGED <<directory, otherSchema, OnStart, files, dbVars, lockHeld, tx, Migrations, DisableTx, fake, op,
                   targetMigration, direction, migrationsToApply, idx, err, pre, trace, prev>>

DeferredRollback(m) ==
    /\ ~Returning
    /\ pc[m] = "rollback"
    /\ IF tx[m].open
       THEN /\ tx' = [tx EXCEPT ![m] = NoTx]
            /\ Log(m, "rollback", 0)
       ELSE UNCHANGED <<tx, trace>>
    /\ pc' = [pc EXCEPT ![m] = "unlock"]
    /\ UNCHANGED <<directory, otherSchema, OnStart, files, dbVars, lockHeld, Migrations, DisableTx, fake, op, targetMigration,
                   direction, migrationsToApply, idx, err, pre, prev>>

\* the release error always becomes the result
releaseAdvisoryLock_Overwrites(m) ==
    /\ ~Returning
    /\ pc[m] = "unlock"
    /\ \/ /\ lockHeld' = [lockHeld EXCEPT ![m] = FALSE]
          /\ Log(m, "unlock", 0)
          /\ UNCHANGED err
       \/ /\ Log(m, "unlockfail", 0)
          /\ err' = [err EXCEPT ![m] = Error("ErrUnlock")]
          /\ UNCHANGED lockHeld
    /\ pc' = [pc EXCEPT ![m] = "returned"]
    /\ UNCHANGED <<directory, otherSchema, OnStart, files, dbVars, tx, Migrations, DisableTx, fake, op, targetMigration,
                   direction, migrationsToApply, idx, pre, prev>>

\* the deferred releaseAdvisoryLock: its error is returned only if err is nil
releaseAdvisoryLock(m) ==
    /\ ~Returning
    /\ pc[m] = "unlock"
    /\ \/ /\ lockHeld' = [lockHeld EXCEPT ![m] = FALSE]
          /\ Log(m, "unlock", 0)
          /\ UNCHANGED err
       \/ /\ Log(m, "unlockfail", 0)
          /\ err' = [err EXCEPT ![m] = IF @ = NoError THEN Error("ErrUnlock") ELSE @]
          /\ UNCHANGED lockHeld
    /\ pc' = [pc EXCEPT ![m] = "returned"]
    /\ UNCHANGED <<directory, otherSchema, OnStart, files, dbVars, tx, Migrations, DisableTx, fake, op, targetMigration,
                   direction, migrationsToApply, idx, pre, prev>>

\* the caller has the result; a panic ends the process, a lost connection the
\* session, and the server then drops the session's advisory lock
Return(m) ==
    /\ pc[m] = "returned"
    /\ pc' = [pc EXCEPT ![m] =
           IF SessionOver(m) \/ (op[m] = "NewMigratorEx" /\ err[m] # NoError)
           THEN "new" ELSE "idle"]
    /\ lockHeld' = [lockHeld EXCEPT ![m] = IF SessionOver(m) THEN FALSE ELSE @]
    /\ prev' = [prev EXCEPT ![m] =
           IF op[m] = "Migrate" /\ err[m] = NoError
           THEN [NoPrev EXCEPT !.kind = "migrated"]
           ELSE IF op[m] = "MigrateTo" /\ err[m] = NoError /\ direction[m] = Forward
           THEN [kind |-> "forward", versionTable |-> pre[m].versionTable,
                 objects |-> pre[m].objects]
           ELSE NoPrev]
    /\ op' = [op EXCEPT ![m] = "none"]
    /\ targetMigration' = [targetMigration EXCEPT ![m] = 0]
    /\ direction' = [direction EXCEPT ![m] = "none"]
    /\ migrationsToApply' = [migrationsToApply EXCEPT ![m] = <<>>]
    /\ idx' = [idx EXCEPT ![m] = 0]
    /\ err' = [err EXCEPT ![m] = NoError]
    /\ pre' = [pre EXCEPT ![m] = NoSnapshot]
    /\ trace' = [trace EXCEPT ![m] = <<>>]
    /\ OnStart' = [OnStart EXCEPT ![m].calls = <<>>]
    /\ UNCHANGED <<directory, otherSchema, files, dbVars, tx, Migrations, DisableTx, fake>>

Next ==
    \/ \E m \in Migrators, disableTx \in BOOLEAN : NewMigratorEx(m, disableTx)
    \/ \E m \in Migrators, name \in Names :
          /\ InFileOrder(m, name)
          /\ AppendMigration(m, name, directory[name])
    \/ \E m \in Migrators : Migrate(m)
    \/ \E m \in Migrators, target \in Names : MigrateTo(m, target)
    \/ \E m \in Migrators : acquireAdvisoryLock(m)
    \/ \E m \in Migrators : ResolveDirection(m)
    \/ \E m \in Migrators : PlanTraversal(m)
    \/ \E m \in Migrators : BeginMigration(m)
    \/ \E m \in Migrators : ExecMigration(m)
    \/ \E m \in Migrators : ResetAll(m)
    \/ \E m \in Migrators : RecordVersion(m)
    \/ \E m \in Migrators : CommitMigration(m)
    \/ \E m \in Migrators : DeferredRollback(m)
    \/ \E m \in Migrators : releaseAdvisoryLock(m)
    \/ \E m \in Migrators : Return(m)

\* the calls of a loaded migrator that may be put in fake mode
HookNext ==
    \/ \E m \in Migrators : SetOnStart(m)
    \/ \E m \in Migrators : Migrate(m)
    \/ \E m \in Migrators, target \in Names : MigrateTo(m, target)
    \/ \E m \in Migrators : acquireAdvisoryLock(m)
    \/ \E m \in Migrators : ResolveDirection(m)
    \/ \E m \in Migrators : PlanTraversal(m)
    \/ \E m \in Migrators : BeginMigration(m)
    \/ \E m \in Migrators : ExecMigration(m)
    \/ \E m \in Migrators : ResetAll(m)
    \/ \E m \in Migrators : RecordVersion(m)
    \/ \E m \in Migrators : CommitMigration(m)
    \/ \E m \in Migrators : DeferredRollback(m)
    \/ \E m \in Migrators : releaseAdvisoryLock(m)
    \/ \E m \in Migrators : Return(m)

NewNext ==
    \E title \in {<<11>>, <<12>>} : NewMigration(title)

StatusNext ==
    \/ \E m \in Migrators : Status(m)
    \/ \E m \in Migrators : Return(m)

\* a fresh migrator loads the one file of the directory, as the command line
\* does once per process
ParseNext ==
    \/ \E m \in Migrators :
          \E fault \in {NoFault} \cup [at : {1}, cause : {"ErrReadFile", "ErrTemplateDown"}] :
             /\ Migrations[m] = NoMigrations
             /\ LoadMigrations(m, fault)
    \/ \E m \in Migrators : Return(m)

LoadNext ==
    \/ \E m \in Migrators :
          \E fault \in {NoFault} \cup [at : 1..MaxLoaded, cause : LoadErrors] : LoadMigrations(m, fault)
    \/ \E m \in Migrators : Migrate(m)
    \/ \E m \in Migrators, target \in Names : MigrateTo(m, target)
    \/ \E m \in Migrators : acquireAdvisoryLock(m)
    \/ \E m \in Migrators : ResolveDirection(m)
    \/ \E m \in Migrators : PlanTraversal(m)
    \/ \E m \in Migrators : BeginMigration(m)
    \/ \E m \in Migrators : ExecMigration(m)
    \/ \E m \in Migrators : ResetAll(m)
    \/ \E m \in Migrators : RecordVersion(m)
    \/ \E m \in Migrators : CommitMigration(m)
    \/ \E m \in Migrators : DeferredRollback(m)
    \/ \E m \in Migrators : releaseAdvisoryLock(m)
    \/ \E m \in Migrators : Return(m)

ResetFailNext ==
    \/ \E m \in Migrators : Migrate(m)
    \/ \E m \in Migrators, target \in Names : MigrateTo(m, target)
    \/ \E m \in Migrators : acquireAdvisoryLock(m)
    \/ \E m \in Migrators : ResolveDirection(m)
    \/ \E m \in Migrators : PlanTraversal(m)
    \/ \E m \in Migrators : BeginMigration(m)
    \/ \E m \in Migrators : ExecMigration(m)
    \/ \E m \in Migrators : ResetAll(m)
    \/ \E m \in Migrators : ResetAllFails(m)
    \/ \E m \in Migrators : RecordVersion(m)
    \/ \E m \in Migrators : CommitMigration(m)
    \/ \E m \in Migrators : DeferredRollback(m)
    \/ \E m \in Migrators : releaseAdvisoryLock(m)
    \/ \E m \in Migrators : Return(m)

FakeNext ==
    \/ \E m \in Migrators : EnableFake(m)
    \/ \E m \in Migrators : Migrate(m)
    \/ \E m \in Migrators, target \in Names : MigrateTo(m, target)
    \/ \E m \in Migrators : acquireAdvisoryLock(m)
    \/ \E m \in Migrators : ResolveDirection(m)
    \/ \E m \in Migrators : PlanTraversal(m)
    \/ \E m \in Migrators : BeginMigration(m)
    \/ \E m \in Migrators : ExecMigration(m)
    \/ \E m \in Migrators : ResetAll(m)
    \/ \E m \in Migrators : RecordVersion(m)
    \/ \E m \in Migrators : CommitMigration(m)
    \/ \E m \in Migrators : DeferredRollback(m)
    \/ \E m \in Migrators : releaseAdvisoryLock(m)
    \/ \E m \in Migrators : Return(m)

\* the constructions only
FirstRunNext ==
    \/ \E m \in Migrators, disableTx \in BOOLEAN : NewMigratorExCall(m, disableTx)
    \/ \E m \in Migrators : ensureAcquire(m)
    \/ \E m \in Migrators : isMigrationTableExists(m)
    \/ \E m \in Migrators : createMigrationTable(m)
    \/ \E m \in Migrators : ensureRelease(m)
    \/ \E m \in Migrators : Return(m)

\* the calls only: both migrators are constructed and hold their migrations
ConcNext ==
    \/ \E m \in Migrators : Migrate(m)
    \/ \E m \in Migrators, target \in Names : MigrateTo(m, target)
    \/ \E m \in Migrators : acquireAdvisoryLock(m)
    \/ \E m \in Migrators : ResolveDirection(m)
    \/ \E m \in Migrators : PlanTraversal(m)
    \/ \E m \in Migrators : BeginMigration(m)
    \/ \E m \in Migrators : ExecMigration(m)
    \/ \E m \in Migrators : ResetAll(m)
    \/ \E m \in Migrators : RecordVersion(m)
    \/ \E m \in Migrators : CommitMigration(m)
    \/ \E m \in Migrators : DeferredRollback(m)
    \/ \E m \in Migrators : releaseAdvisoryLock(m)
    \/ \E m \in Migrators : Return(m)

\* one migrator session, from its construction on
Spec == Init /\ [][Next]_vars

\* two migrator sessions that have loaded the same migrations
ConcSpec == ConcInit /\ [][ConcNext]_vars

MixedNext ==
    \/ \E name \in 1..MaxLoaded : AppendMigration("m2", name, directory[name])
    \/ \E m \in Migrators : Migrate(m)
    \/ \E m \in Migrators, target \in Names : MigrateTo(m, target)
    \/ \E m \in Migrators : acquireAdvisoryLock(m)
    \/ \E m \in Migrators : ResolveDirection(m)
    \/ \E m \in Migrators : PlanTraversal(m)
    \/ \E m \in Migrators : BeginMigration(m)
    \/ \E m \in Migrators : ExecMigration(m)
    \/ \E m \in Migrators : ResetAll(m)
    \/ \E m \in Migrators : RecordVersion(m)
    \/ \E m \in Migrators : CommitMigration(m)
    \/ \E m \in Migrators : DeferredRollback(m)
    \/ \E m \in Migrators : releaseAdvisoryLock(m)
    \/ \E m \in Migrators : Return(m)

MixedSpec == MixedInit /\ [][MixedNext]_vars

\* the new command, run again and again in a project directory
NewSpec == NewInit /\ [][NewNext]_vars

\* the status command on any loaded set and any version table
StatusSpec == StatusInit /\ [][StatusNext]_vars

\* one migrator that loads files with prefixes of different widths and migrates
PrefixSpec == PrefixInit /\ [][LoadNext]_vars

\* one migrator that loads a directory of one file, whatever its text
ParseSpec == ParseInit /\ [][ParseNext]_vars

\* one migrator session, constructed, that loads the directory and migrates
LoadSpec == LoadInit /\ [][LoadNext]_vars

\* a caller that builds the migration set by hand and from the directory, in
\* any order and with names it has appended before
SeqNext ==
    \/ \E m \in Migrators, name \in Names : AppendMigration(m, name, directory[name])
    \/ \E m \in Migrators : LoadMigrations(m, NoFault)
    \/ \E m \in Migrators : Return(m)

SeqSpec == LoadInit /\ [][SeqNext]_vars

\* one migrator session, constructed and loaded, on a connection whose
\* "reset all" may fail
ResetFailSpec == FakeInit /\ [][ResetFailNext]_vars

\* one migrator session, constructed and loaded, whose callback may be set
HookSpec == FakeInit /\ [][HookNext]_vars

\* two migrators constructed side by side, on a database with or without the table
FirstRunSpec == FirstRunInit /\ [][FirstRunNext]_vars

\* one migrator session, constructed and loaded, that may be put in fake mode
FakeSpec == FakeInit /\ [][FakeNext]_vars

\* one migrator session whose every migration can be reverted
RevSpec == RevInit /\ [][Next]_vars

\* ================================================================ claims
Has(t, e) == \E i \in 1..Len(t) : t[i].ev = e

Count(t, e) == Len(SelectSeq(t, LAMBDA x : x.ev = e))

\* the call of m has returned after it had taken the advisory lock
Ran(m) == pc[m] = "returned" /\ Has(trace[m], "lock")

Succeeded(m) == Ran(m) /\ err[m] = NoError

Loaded(m) == DOMAIN Migrations[m]

\* the strictly ascending sequence of the members of S
Ascending(S) ==
    CHOOSE q \in [1..Cardinality(S) -> S] :
        \A i, j \in 1..Cardinality(S) : i < j => q[i] < q[j]

\* the pending names up to and including the target, taken when the lock was acquired
PendingUpTo(m) ==
    Ascending({n \in Loaded(m) : n \notin Range(pre[m].versionTable) /\ n <= targetMigration[m]})

\* C1: a successful MigrateTo whose target is loaded and not applied executes the
\* up SQL of exactly the pending names <= target, in ascending order ending with
\* the target, and records each; no pending name above the target is touched.
C1_ForwardTraversal ==
    \A m \in Migrators :
        ( /\ Succeeded(m)
          /\ targetMigration[m] \in Loaded(m)
          /\ targetMigration[m] \notin Range(pre[m].versionTable) )
        => /\ EventNames(trace[m], "exec") = PendingUpTo(m)
           /\ EventNames(trace[m], "record") = PendingUpTo(m)
           /\ versionTable = pre[m].versionTable \o PendingUpTo(m)
           /\ objects = pre[m].objects \cup Range(PendingUpTo(m))

\* a forward run of two entries that stops below a pending name, on a table that
\* already held a row
C1_Witness ==
    \E m \in Migrators :
        /\ Succeeded(m)
        /\ targetMigration[m] \in Loaded(m)
        /\ targetMigration[m] \notin Range(pre[m].versionTable)
        /\ Len(EventNames(trace[m], "exec")) >= 2
        /\ \E n \in Loaded(m) : n > targetMigration[m] /\ n \notin Range(versionTable)

\* the rows that followed the target when the lock was acquired, oldest first
AppliedAfter(m) ==
    LET rows == pre[m].versionTable
        p == CHOOSE i \in 1..Len(rows) : rows[i] = targetMigration[m]
    IN SubSeq(rows, p + 1, Len(rows))

AppliedUpTo(m) ==
    LET rows == pre[m].versionTable
        p == CHOOSE i \in 1..Len(rows) : rows[i] = targetMigration[m]
    IN SubSeq(rows, 1, p)

\* C2: a successful MigrateTo whose target is applied removes exactly the rows
\* applied after the target, most recently applied first, runs the down SQL of
\* each that has one, and leaves the applied sequence cut just after the target.
C2_BackTraversal ==
    \A m \in Migrators :
        (Succeeded(m) /\ targetMigration[m] \in Range(pre[m].versionTable))
        => LET after == AppliedAfter(m)
               undone == EventNames(trace[m], "record")
           IN /\ Len(undone) = Len(after)
              /\ \A i \in 1..Len(after) : undone[i] = after[Len(after) + 1 - i]
              /\ EventNames(trace[m], "exec") =
                    SelectSeq(undone, LAMBDA n : Migrations[m][n].DownSQL # EmptySQL)
              /\ versionTable = AppliedUpTo(m)
              /\ versionTable[Len(versionTable)] = targetMigration[m]
              /\ objects = pre[m].objects \ {n \in Range(after) : Migrations[m][n].DownSQL # EmptySQL}

\* a back run that reverted two migrations and left the target as the head
C2_Witness ==
    \E m \in Migrators :
        /\ Succeeded(m)
        /\ targetMigration[m] \in Range(pre[m].versionTable)
        /\ Len(EventNames(trace[m], "record")) >= 2
        /\ Len(EventNames(trace[m], "exec")) >= 1

\* m is inside MigrateTo between its lock request's return and its release
InRun(m) ==
    pc[m] \in {"direction", "plan", "begin", "exec", "reset", "record", "commit",
               "rollback", "unlock"}

\* C3: of two sessions running MigrateTo on one database, at most one is between
\* its lock acquisition and its release, and that one holds the advisory lock at
\* every version read, SQL execution and version write from the first read to
\* the last traversal entry; the other is still waiting for the lock or has
\* released it.
C3_Exclusivity ==
    \A m \in Migrators :
        /\ InRun(m) => lockHeld[m]
        /\ tx[m].open => lockHeld[m]
        /\ \A o \in Migrators \ {m} :
              /\ ~(lockHeld[m] /\ lockHeld[o])
              /\ InRun(m) => ~InRun(o)
              /\ InRun(m) => ~Has(trace[o], "lock")

\* one session is at the second entry of its traversal with a statement executed
\* while the other has called MigrateTo and waits for the lock
C3_Witness ==
    \E m \in Migrators, o \in Migrators :
        /\ m # o
        /\ pc[m] = "record"
        /\ idx[m] = 2
        /\ Len(EventNames(trace[m], "exec")) = 2
        /\ pc[o] = "acquire"
        /\ op[o] = "MigrateTo"

\* the events that the deferred calls of MigrateTo leave
DeferredEvents == {"rollback", "unlock", "unlockfail"}

\* C4: once the SQL of a traversal entry has failed, the call only runs its
\* deferred rollback and release: nothing is begun, executed or recorded after
\* the failure, the result is an error, and for a PgError it is the
\* MigrationPgError that carries the SQL of the failed entry.
C4_AbortOnExecError ==
    \A m \in Migrators : \A i \in 1..Len(trace[m]) :
        trace[m][i].ev \in {"execfail", "execfailpg"}
        => /\ pc[m] \in {"rollback", "unlock", "returned"}
           /\ \A j \in (i+1)..Len(trace[m]) : trace[m][j].ev \in DeferredEvents
           /\ err[m] # NoError
           /\ migrationsToApply[m][idx[m]] = trace[m][i].name
           /\ trace[m][i].ev = "execfailpg"
                 => err[m] = MigrationPgError(
                        SQLFor(Migrations[m][trace[m][i].name], direction[m]))
           /\ trace[m][i].ev = "execfail" => err[m] = Error("ErrExec")

\* a call has returned after a PgError at an entry that was not the last of its
\* traversal and not the target, with an earlier entry committed
C4_Witness ==
    \E m \in Migrators :
        /\ pc[m] = "returned"
        /\ Has(trace[m], "execfailpg")
        /\ Has(trace[m], "commit")
        /\ idx[m] < Len(migrationsToApply[m])
        /\ migrationsToApply[m][idx[m]] # targetMigration[m]
        /\ err[m].kind = "MigrationPgError"

\* the database after the first c entries of m's traversal have completed on the
\* state found when the lock was acquired
RECURSIVE Completed(_, _)
Completed(m, c) ==
    IF c = 0 THEN pre[m]
    ELSE LET before == Completed(m, c - 1)
             name == migrationsToApply[m][c]
         IN [versionTable |->
                IF direction[m] = Forward
                THEN markMigrationApplied(before.versionTable, name)
                ELSE markMigrationUnapplied(before.versionTable, name),
             objects |-> ExecSQL(SQLFor(Migrations[m][name], direction[m]), before.objects)]

\* the call of m failed inside a traversal entry
FailedInEntry(m) ==
    \/ err[m].kind \in {"ErrBegin", "ErrExec", "MigrationPgError", "ErrRecord", "ErrCommit"}
    \/ err[m].kind = "panic" /\ Len(migrationsToApply[m]) > 0

\* C5: with transactions enabled, a run that fails at traversal entry k leaves
\* the version table and the database objects exactly as completing entries
\* 1..k-1 leaves them: entry k is rolled back whole, no earlier entry is undone.
C5_CommittedPrefix ==
    \A m \in Migrators :
        (Ran(m) /\ ~DisableTx[m] /\ FailedInEntry(m))
        => /\ ~tx[m].open
           /\ Count(trace[m], "commit") = idx[m] - 1
           /\ versionTable = Completed(m, idx[m] - 1).versionTable
           /\ objects = Completed(m, idx[m] - 1).objects

\* the record of the second entry failed after its SQL had run in the
\* transaction, the first entry being committed
C5_Witness ==
    \E m \in Migrators :
        /\ Ran(m)
        /\ ~DisableTx[m]
        /\ err[m].kind = "ErrRecord"
        /\ idx[m] = 2
        /\ Len(EventNames(trace[m], "exec")) = 2
        /\ Has(trace[m], "rollback")
        /\ versionTable # pre[m].versionTable

Releases(m) == Count(trace[m], "unlock") + Count(trace[m], "unlockfail")

\* C6: a MigrateTo that acquired the advisory lock attempts its release exactly
\* once before it returns, on every path, as its last database call; when the
\* release succeeds the migrator returns without the lock.  A call that did not
\* get the lock attempts no release.
C6_LockReleased ==
    \A m \in Migrators :
        /\ Releases(m) <= 1
        /\ Releases(m) = 1 => pc[m] = "returned"
        /\ pc[m] = "returned" =>
              /\ Has(trace[m], "lock") <=> Releases(m) = 1
              /\ Releases(m) = 1 =>
                    trace[m][Len(trace[m])].ev \in {"unlock", "unlockfail"}
              /\ Has(trace[m], "unlock") => ~lockHeld[m]

\* a call whose record step failed in the second entry has rolled back,
\* released the lock and returned the error
C6_Witness ==
    \E m \in Migrators :
        /\ pc[m] = "returned"
        /\ err[m].kind = "ErrRecord"
        /\ idx[m] = 2
        /\ Has(trace[m], "unlock")
        /\ ~lockHeld[m]

\* the events of the traversal loop
LoopEvents ==
    {"begin", "start", "exec", "execfail", "execfailpg", "reset", "record", "recordfail",
     "commit", "commitfail", "rollback"}

\* C7: a MigrateTo whose target is neither applied nor loaded returns
\* MigrationNotFound of that target once it has read the version table; it opens
\* no transaction, executes no migration SQL, leaves the version table and the
\* database objects as they were, and releases the advisory lock.
C7_NotFound ==
    \A m \in Migrators :
        ( /\ Ran(m)
          /\ targetMigration[m] \notin Range(pre[m].versionTable)
          /\ targetMigration[m] \notin Loaded(m) )
        => /\ Has(trace[m], "read") => err[m] = MigrationNotFound(targetMigration[m])
           /\ ~Has(trace[m], "read") => (Has(trace[m], "readfail") /\ err[m] = Error("ErrRead"))
           /\ \A i \in 1..Len(trace[m]) : trace[m][i].ev \notin LoopEvents
           /\ ~tx[m].open
           /\ versionTable = pre[m].versionTable
           /\ objects = pre[m].objects
           /\ Releases(m) = 1
           /\ Has(trace[m], "unlock") => ~lockHeld[m]

\* not found is returned and the lock released while a loaded migration is
\* pending and the version table holds a row
C7_Witness ==
    \E m \in Migrators :
        /\ Ran(m)
        /\ targetMigration[m] \notin Range(pre[m].versionTable)
        /\ targetMigration[m] \notin Loaded(m)
        /\ err[m] = MigrationNotFound(targetMigration[m])
        /\ Has(trace[m], "unlock")
        /\ Len(versionTable) > 0
        /\ \E n \in Loaded(m) : n \notin Range(versionTable)

\* C8: the direction resolved for a target is Back when the target is among the
\* applied names, loaded or not; otherwise Forward when it is loaded; otherwise
\* NotFound.  Resolving it changes neither the version table nor anything else
\* in the database.
C8_DirectionResolution ==
    [][\A m \in Migrators :
          (pc[m] = "direction" /\ pc'[m] # "direction")
          => /\ UNCHANGED <<tableExists, versionTable, objects, tx>>
             /\ direction'[m] # direction[m] =>
                   direction'[m] =
                      IF targetMigration[m] \in Range(versionTable) THEN Back
                      ELSE IF targetMigration[m] \in Loaded(m) THEN Forward
                      ELSE NotFound
             /\ direction'[m] = direction[m] => Has(trace'[m], "readfail")]_vars

\* Back was resolved for an applied target that is not in the loaded set, while
\* another name is loaded
C8_Witness ==
    \E m \in Migrators :
        /\ direction[m] = Back
        /\ targetMigration[m] \in Range(versionTable)
        /\ targetMigration[m] \notin Loaded(m)
        /\ Loaded(m) # {}

\* C9: a Migrate called right after a successful Migrate, nothing having changed
\* in between, returns from its read of the pending names: it takes no lock,
\* executes no SQL, leaves the applied sequence and the objects as the first call
\* left them, and succeeds whenever that read succeeds.
C9_MigrateIdempotent ==
    \A m \in Migrators :
        (op[m] = "Migrate" /\ prev[m].kind = "migrated")
        => /\ pc[m] = "returned"
           /\ Len(trace[m]) = 1
           /\ trace[m][1].ev \in {"read", "readfail"}
           /\ trace[m][1].ev = "read" => err[m] = NoError
           /\ trace[m][1].ev = "readfail" => err[m] = Error("ErrRead")
           /\ versionTable = pre[m].versionTable
           /\ objects = pre[m].objects
           /\ ~lockHeld[m]

\* the second Migrate has returned success on a table of two applied migrations
C9_Witness ==
    \E m \in Migrators :
        /\ op[m] = "Migrate"
        /\ prev[m].kind = "migrated"
        /\ pc[m] = "returned"
        /\ err[m] = NoError
        /\ Cardinality(Loaded(m)) >= 2
        /\ Len(versionTable) >= 2

\* the loaded names that were not applied when the call began
Pending(m) == {n \in Loaded(m) : n \notin Range(pre[m].versionTable)}

\* C10: Migrate runs MigrateTo with the largest pending name as its target, and
\* when it returns success every loaded migration is applied, the pending ones
\* appended in ascending order; with nothing pending (an empty loaded set
\* included) it returns success from its read, without a lock, an SQL execution
\* or a change of the version table.
C10_MigrateToLatest ==
    \A m \in Migrators :
        op[m] = "Migrate" =>
           /\ (pc[m] # "returned" \/ Has(trace[m], "lock") \/ Has(trace[m], "lockfail"))
                 => /\ Pending(m) # {}
                    /\ targetMigration[m] \in Pending(m)
                    /\ \A n \in Pending(m) : n <= targetMigration[m]
           /\ (pc[m] = "returned" /\ err[m] = NoError)
                 => /\ Loaded(m) \subseteq Range(versionTable)
                    /\ MigrationsToApply(versionTable, Migrations[m]) = <<>>
                    /\ versionTable = pre[m].versionTable \o Ascending(Pending(m))
           /\ (Pending(m) = {} /\ ~Has(trace[m], "readfail"))
                 => /\ pc[m] = "returned"
                    /\ err[m] = NoError
                    /\ trace[m] = <<Event("read", 0)>>
                    /\ versionTable = pre[m].versionTable
                    /\ objects = pre[m].objects

\* Migrate has applied two pending migrations after an applied one and returned
\* success
C10_Witness ==
    \E m \in Migrators :
        /\ op[m] = "Migrate"
        /\ Succeeded(m)
        /\ Cardinality(Pending(m)) >= 2
        /\ pre[m].versionTable # <<>>
        /\ Loaded(m) \subseteq Range(versionTable)

\* every loaded migration has the down SQL that drops what its up SQL creates
AllReversible(m) == \A n \in Loaded(m) : Migrations[m][n].DownSQL = DropSQL(n)

\* C11: with every loaded migration reversible, a successful forward MigrateTo
\* followed by a successful MigrateTo back to the head it started from restores
\* the applied sequence and the database objects found before the forward call;
\* started on an empty table and taken back to the first name applied, it
\* leaves exactly that name applied and its object the only one added.
C11_RoundTrip ==
    \A m \in Migrators :
        (Succeeded(m) /\ prev[m].kind = "forward" /\ AllReversible(m))
        => /\ direction[m] = Back
           /\ IF prev[m].versionTable # <<>>
              THEN /\ versionTable = prev[m].versionTable
                   /\ objects = prev[m].objects
              ELSE /\ versionTable = <<targetMigration[m]>>
                   /\ objects = prev[m].objects \cup {targetMigration[m]}

\* A was the applied head, two migrations were applied by the forward call and
\* both have been reverted by the call back to A
C11_Witness ==
    \E m \in Migrators :
        /\ Succeeded(m)
        /\ prev[m].kind = "forward"
        /\ AllReversible(m)
        /\ Len(prev[m].versionTable) = 1
        /\ Len(EventNames(trace[m], "exec")) = 2
        /\ Len(EventNames(trace[m], "record")) = 2
        /\ objects = {targetMigration[m]}

FirstIrreversible(m) ==
    LET reached == {i \in 1..Len(migrationsToApply[m]) :
                      /\ i <= idx[m]
                      /\ migrationsToApply[m][i] \in Loaded(m)
                      /\ Migrations[m][migrationsToApply[m][i]].DownSQL = EmptySQL}
    IN IF reached = {} THEN 0 ELSE CHOOSE i \in reached : \A j \in reached : i <= j

\* C13: a back traversal that comes to a migration without a down SQL returns
\* the irreversible-migration error of that migration: its version row is not
\* deleted and no later entry of the traversal is processed.
C13_IrreversibleAborts ==
    \A m \in Migrators :
        (Ran(m) /\ direction[m] = Back /\ FirstIrreversible(m) > 0
               /\ Has(trace[m], "start")
               /\ \E i \in 1..Len(trace[m]) :
                     /\ trace[m][i].ev = "start"
                     /\ trace[m][i].name = migrationsToApply[m][FirstIrreversible(m)])
        => LET name == migrationsToApply[m][FirstIrreversible(m)]
           IN /\ err[m] = IrreversibleMigrationError(name)
              /\ name \in Range(versionTable)
              /\ name \notin Range(EventNames(trace[m], "record"))
              /\ idx[m] = FirstIrreversible(m)

\* the number of traversal entries m has recorded
Recorded(m) == Len(EventNames(trace[m], "record"))

\* C14: when the release of the advisory lock fails, a run without an earlier
\* error returns the release error, every migration it traversed staying
\* committed; a run that had failed returns its earlier error, which the
\* release error does not replace.
C14_ReleaseErrorPrecedence ==
    /\ [](\A m \in Migrators :
            err[m] = Error("ErrUnlock")
            => /\ pc[m] = "returned"
               /\ trace[m][Len(trace[m])].ev = "unlockfail"
               /\ ~tx[m].open
               /\ Recorded(m) = Len(migrationsToApply[m])
                     \/ migrationsToApply[m][Recorded(m)] = targetMigration[m]
               /\ versionTable = Completed(m, Recorded(m)).versionTable
               /\ objects = Completed(m, Recorded(m)).objects)
    /\ [][\A m \in Migrators :
            (pc[m] = "unlock" /\ pc'[m] = "returned")
            => /\ UNCHANGED <<versionTable, objects>>
               /\ err[m] # NoError => err'[m] = err[m]
               /\ (err[m] = NoError /\ Has(trace'[m], "unlockfail"))
                     => err'[m] = Error("ErrUnlock")
               /\ (err[m] = NoError /\ ~Has(trace'[m], "unlockfail"))
                     => err'[m] = NoError]_vars

\* the release failed after a traversal of two migrations, both committed
C14_Witness ==
    \E m \in Migrators :
        /\ pc[m] = "returned"
        /\ err[m] = Error("ErrUnlock")
        /\ Recorded(m) = 2
        /\ Len(versionTable) = Len(pre[m].versionTable) + 2

\* C15: a migrator constructed without error finds the version table in place,
\* a construction leaves the rows of a table that exists unchanged, and a table
\* that exists is never dropped or created anew
C15_TableLifecycle ==
    /\ [](\A m \in Migrators : pc[m] = "idle" => tableExists)
    /\ [][tableExists =>
            /\ tableExists'
            /\ (\E m \in Migrators : op[m] = "NewMigratorEx") => versionTable' = versionTable]_vars

\* m is between its lock request's return and its release's return
InEnsure(m) == pc[m] \in {"ensure_check", "ensure_create", "ensure_unlock"}

\* the existence check and the creation, as logged by a construction
EnsureEvents == {"present", "absent", "checkfail", "created", "kept", "createfail"}

\* C16: the existence check and the creation of the version table by a
\* constructor happen after its own lock acquire and before its release, no two
\* migrators are in that section together, and the table is created at most once
C16_RaceFreeFirstRun ==
    /\ [](\A m \in Migrators :
            /\ InEnsure(m) => lockHeld[m] /\ \A o \in Migrators \ {m} : ~InEnsure(o) /\ ~lockHeld[o]
            /\ \A i \in 1..Len(trace[m]) :
                 trace[m][i].ev \in EnsureEvents =>
                   /\ trace[m][1].ev = "lock"
                   /\ \A j \in 1..i : trace[m][j].ev \notin {"unlock", "unlockfail"})
    /\ [][\A m \in Migrators :
            /\ (pc[m] = "ensure_check" /\ pc'[m] = "ensure_create"
                  /\ trace'[m][Len(trace'[m])].ev = "absent") => ~tableExists
            /\ (pc[m] = "ensure_create" /\ Has(trace[m], "absent")) => ~tableExists
            /\ (Has(trace'[m], "created") /\ ~Has(trace[m], "created")) =>
                  ~tableExists /\ tableExists']_vars
    /\ [][tableExists => tableExists']_vars

\* one constructor has created the table and still holds the lock while the
\* other waits for it
C16_Witness ==
    \E m \in Migrators : \E o \in Migrators \ {m} :
        /\ pc[m] = "ensure_unlock" /\ Has(trace[m], "created")
        /\ pc[o] = "ensure_acquire"

\* C17: GetCurrentVersion returns the applied names in the order in which they
\* were recorded: a step changes the committed rows only by adding one name
\* after all the others or by removing one name; on a table without rows it
\* returns the empty sequence and no error; MigrateTo(2) on an empty table,
\* with migrations 1 and 2 loaded, leaves exactly <<1, 2>>
C17_AppliedOrder ==
    /\ [](\A m \in Migrators :
            /\ ( /\ Has(trace[m], "lock") /\ trace[m][Len(trace[m])].ev = "read"
                 /\ pre[m].versionTable = <<>> ) =>
                  /\ err[m] # Error("ErrRead")
                  /\ direction[m] = GetDirection(<<>>, Migrations[m], targetMigration[m])
            /\ ( /\ Succeeded(m) /\ op[m] = "MigrateTo" /\ targetMigration[m] = 2
                 /\ pre[m].versionTable = <<>> /\ {1, 2} \subseteq Loaded(m) ) =>
                  /\ versionTable = <<1, 2>>
                  /\ GetCurrentVersion(m) = <<1, 2>>)
    /\ [][\/ versionTable' = versionTable
          \/ \E n \in Names : versionTable' = Append(versionTable, n)
          \/ \E n \in Range(versionTable) :
                versionTable' = SelectSeq(versionTable, LAMBDA r : r # n)]_vars

\* MigrateTo(2) has returned nil on a table that was empty, and the table now
\* holds the two names in the order of their recording
C17_Witness ==
    \E m \in Migrators :
        /\ Succeeded(m) /\ op[m] = "MigrateTo" /\ targetMigration[m] = 2
        /\ pre[m].versionTable = <<>>
        /\ EventNames(trace[m], "record") = <<1, 2>>
        /\ versionTable = <<1, 2>>

\* the label the observer is told for a run in direction dir
Label(dir) == IF dir = Forward THEN "up" ELSE "down"

\* C18: a callback that is set receives one call per traversal entry that was
\* begun, in traversal order and before the entry's SQL runs, with the entry's
\* name, its SQL text and the label "up" in a Forward run and "down" in a Back
\* run; a callback that is not set receives none
C18_ObserverHook ==
    \A m \in Migrators :
        /\ ~OnStart[m].set => OnStart[m].calls = <<>>
        /\ (OnStart[m].set /\ Has(trace[m], "lock")) =>
              LET calls == OnStart[m].calls
              IN /\ [i \in 1..Len(calls) |-> calls[i].name] = EventNames(trace[m], "start")
                 /\ \A i \in 1..Len(trace[m]) :
                      trace[m][i].ev \in {"exec", "execfail", "execfailpg"} =>
                        \E j \in 1..Len(calls) : calls[j].name = trace[m][i].name
                 /\ \A i \in 1..Len(calls) :
                      /\ calls[i].name = migrationsToApply[m][i]
                      /\ calls[i].sql = SQLFor(Migrations[m][calls[i].name], direction[m])
                      /\ calls[i].directionName = Label(direction[m])

\* the events of database calls that returned an error
FailureEvents ==
    {"lockfail", "readfail", "execfail", "execfailpg", "resetfail", "recordfail",
     "commitfail", "unlockfail"}

\* the call an event belongs to
CallOf(ev) ==
    CASE ev \in {"lock", "lockfail"} -> "lock"
      [] ev \in {"read", "readfail"} -> "read"
      [] ev \in {"exec", "execfail", "execfailpg"} -> "exec"
      [] ev \in {"reset", "resetfail"} -> "reset"
      [] ev \in {"record", "recordfail"} -> "record"
      [] ev \in {"commit", "commitfail"} -> "commit"
      [] ev \in {"unlock", "unlockfail"} -> "unlock"
      [] OTHER -> ev

\* C19: a run of MigrateTo in which a database call failed (lock acquire,
\* version read, begin, migration SQL, session reset, version record, commit,
\* lock release) returns a non-nil error, and the call that failed is not made
\* again in that run
C19_NoSwallowedFailures ==
    \A m \in Migrators :
        (pc[m] = "returned" /\ op[m] \in {"MigrateTo", "Migrate"}) =>
            /\ (\E i \in 1..Len(trace[m]) : trace[m][i].ev \in FailureEvents) => err[m] # NoError
            /\ \A i \in 1..Len(trace[m]) : \A j \in (i + 1)..Len(trace[m]) :
                 trace[m][i].ev \in FailureEvents =>
                   ~( /\ CallOf(trace[m][j].ev) = CallOf(trace[m][i].ev)
                      /\ trace[m][j].name = trace[m][i].name )

\* C20: a LoadMigrations that returns an error leaves the migrator's migration
\* set as it was before the call: none of the files of that load is in it
C20_AllOrNothingLoad ==
    [][\A m \in Migrators :
          ( /\ pc[m] = "idle" /\ pc'[m] = "returned"
            /\ op'[m] = "LoadMigrations" /\ err'[m] # NoError )
          => Migrations'[m] = Migrations[m]]_vars

\* m's LoadMigrations has returned from a directory that could be listed and
\* holds no matching file
EmptyLoad(m) ==
    /\ pc[m] = "returned" /\ op[m] = "LoadMigrations"
    /\ files = <<>> /\ err[m] # Error("ErrReadDir")

\* C21, as stated: a load of a valid directory without matching files returns
\* nil and yields the empty migration set
C21_EmptyLoadSucceeds ==
    \A m \in Migrators : EmptyLoad(m) => err[m] = NoError /\ Migrations[m] = NoMigrations

\* C21, amended: a load of a valid directory without matching files returns
\* NoMigrationsFoundError from the core load itself and leaves the migration
\* set empty
C21_EmptyLoadFails ==
    \A m \in Migrators :
        EmptyLoad(m) => err[m] = Error("NoMigrationsFoundError") /\ Migrations[m] = NoMigrations

C21_Witness ==
    \E m \in Migrators : EmptyLoad(m) /\ err[m] = Error("NoMigrationsFoundError")

\* the errors of a load that come from the environment, not from a file's text
FaultErrors == {Error(c) : c \in LoadErrors}

\* C22: unless the environment fails first, LoadMigrations returns
\* ErrNoFwMigration exactly when the up part of some file has no line that,
\* trimmed, is non-empty and does not start with "--"; a blank down part or a
\* missing delimiter never fails the load and gives an empty DownSQL
C22_EmptyMigrationRejection ==
    \A m \in Migrators :
        (pc[m] = "returned" /\ op[m] = "LoadMigrations") =>
            LET NoSQL(f) == \A i \in 1..Len(f.up) :
                                \/ TrimSpace(f.up[i]) = <<>>
                                \/ /\ Len(TrimSpace(f.up[i])) >= 2
                                   /\ SubSeq(TrimSpace(f.up[i]), 1, 2) = <<"-", "-">>
            IN /\ err[m] = Error("ErrNoFwMigration") => \E k \in 1..Len(files) : NoSQL(files[k])
               /\ ( /\ \E k \in 1..Len(files) : NoSQL(files[k])
                    /\ err[m] \notin FaultErrors ) => err[m] = Error("ErrNoFwMigration")
               /\ err[m] = NoError =>
                    \A k \in 1..Len(files) :
                        /\ k \in DOMAIN Migrations[m]
                        /\ Migrations[m][k].UpSQL # EmptySQL
                        /\ Migrations[m][k].DownSQL = EmptySQL <=>
                              \/ ~files[k].delimiter
                              \/ \A i \in 1..Len(files[k].down) :
                                    \A c \in 1..Len(files[k].down[i]) : files[k].down[i][c] = " "

\* a file of a comment and a statement, with a delimiter and a blank down part,
\* has been loaded
C22_Witness ==
    \E m \in Migrators :
        /\ pc[m] = "returned" /\ op[m] = "LoadMigrations" /\ err[m] = NoError
        /\ Len(files) = 1
        /\ files[1].up = << <<"-", "-">>, <<" ", "c">> >>
        /\ files[1].delimiter
        /\ files[1].down = << <<" ">> >>
        /\ Migrations[m][1].DownSQL = EmptySQL

\* C23: of two migrations applied in one Forward run, the one whose file name
\* has the smaller numeric prefix is begun first
C23_NumericPrefixOrder ==
    \A m \in Migrators :
        (Has(trace[m], "lock") /\ direction[m] = Forward) =>
            LET started == EventNames(trace[m], "start")
            IN \A i \in 1..Len(started) : \A j \in (i + 1)..Len(started) :
                  NumericPrefix(files[started[i]].prefix) <= NumericPrefix(files[started[j]].prefix)

\* C24: the status command prints "up to date" exactly when no loaded
\* migration is unapplied, and otherwise a pending count that is the number of
\* loaded migrations that are not applied
C24_Status ==
    \A m \in Migrators :
        (pc[m] = "returned" /\ op[m] = "Status" /\ err[m] = NoError) =>
            LET line == trace[m][Len(trace[m])]
                unapplied == {n \in Loaded(m) : n \notin Range(pre[m].versionTable)}
            IN /\ line.ev = "up to date" <=>
                    MigrationsToApply(pre[m].versionTable, Migrations[m]) = <<>>
               /\ line.ev # "up to date" =>
                    line.ev = "pending" /\ line.name = Cardinality(unapplied)

\* C25: every file that the new command creates has a numeric prefix greater
\* than the prefix of every file already in the directory; in an empty
\* directory the first file gets 001 and the next 002
C25_NewMigrationNumbering ==
    [][files' # files =>
         \E f \in Range(files') \ Range(files) :
            /\ Range(files') = Range(files) \cup {f}
            /\ \A g \in Range(files) : NumericPrefix(g.prefix) < NumericPrefix(f.prefix)
            /\ files = <<>> => f.prefix = <<0, 0, 1>>
            /\ (Len(files) = 1 /\ files[1].prefix = <<0, 0, 1>>) => f.prefix = <<0, 0, 2>>]_vars

\* C26: the SQL of an entry that executed is followed at once by "reset all",
\* the version record of that entry comes only after that reset, and no reset
\* is issued for an entry whose SQL failed
C26_ResetOrdering ==
    \A m \in Migrators :
        \A i \in 1..Len(trace[m]) :
            LET e == trace[m][i]
            IN /\ (e.ev = "exec" /\ (i < Len(trace[m]) \/ pc[m] \notin {"reset"})) =>
                    /\ i < Len(trace[m])
                    /\ trace[m][i + 1] = Event("reset", e.name)
               /\ (e.ev \in {"record", "recordfail"}
                     /\ \E k \in 1..i : trace[m][k] = Event("exec", e.name)) =>
                    \E r \in 1..i :
                       /\ trace[m][r] = Event("reset", e.name)
                       /\ \E k \in 1..r : trace[m][k] = Event("exec", e.name)
               /\ e.ev \in {"execfail", "execfailpg"} =>
                    \A r \in 1..Len(trace[m]) : trace[m][r] # Event("reset", e.name)

\* a run has executed, reset and recorded one entry and then failed in the SQL
\* of the next one
C26_Witness ==
    \E m \in Migrators :
        /\ pc[m] = "returned"
        /\ Has(trace[m], "execfail")
        /\ \E i \in 1..Len(trace[m]) :
              /\ i + 2 <= Len(trace[m])
              /\ trace[m][i].ev = "exec"
              /\ trace[m][i + 1] = Event("reset", trace[m][i].name)
              /\ trace[m][i + 2] = Event("record", trace[m][i].name)

\* the names of the entries that a run has begun to process, in order
Started(m) == EventNames(trace[m], "start")

\* C27, as stated: in a Forward and in a Back run that returns nil, the target
\* is the last entry processed
C27_TargetInclusive ==
    \A m \in Migrators :
        (Succeeded(m) /\ direction[m] \in {Forward, Back}) =>
            /\ Started(m) # <<>>
            /\ Started(m)[Len(Started(m))] = targetMigration[m]
            /\ EventNames(trace[m], "record") = Started(m)

\* C27, amended: a Forward run that returns nil has processed the target as
\* its last entry and none of the pending migrations after it; a Back run that
\* returns nil has processed exactly the names applied after the target, and
\* the target itself is not processed and stays applied
C27_TargetStop ==
    \A m \in Migrators :
        /\ (Succeeded(m) /\ direction[m] = Forward) =>
              /\ Started(m) # <<>>
              /\ Started(m)[Len(Started(m))] = targetMigration[m]
              /\ EventNames(trace[m], "record") = Started(m)
              /\ \A n \in Pending(m) :
                    n > targetMigration[m] => n \notin Range(Started(m)) \cup Range(versionTable)
        /\ (Succeeded(m) /\ direction[m] = Back) =>
              /\ targetMigration[m] \notin Range(Started(m))
              /\ targetMigration[m] \in Range(versionTable)
              /\ Started(m) = Reverse(AppliedAfter(m))
              /\ versionTable[Len(versionTable)] = targetMigration[m]

\* a Forward run has stopped at its target with a later migration still
\* pending
C27_Witness ==
    \E m \in Migrators :
        /\ Succeeded(m) /\ direction[m] = Forward
        /\ Started(m) # <<>>
        /\ \E n \in Pending(m) : n > targetMigration[m]

\* the events that end a transaction
TxEnds == {"commit", "commitfail", "rollback"}

\* C28: with transactions enabled, the SQL and the version record of an entry
\* happen inside a transaction begun for that entry, that transaction has
\* ended before the next one begins, and an open transaction never holds the
\* changes of two migrations; with DisableTx no transaction is begun
C28_OneTxPerMigration ==
    \A m \in Migrators :
        /\ DisableTx[m] =>
              /\ ~tx[m].open
              /\ \A i \in 1..Len(trace[m]) : trace[m][i].ev \notin TxEnds \cup {"begin"}
        /\ (~DisableTx[m] /\ Has(trace[m], "lock")) =>
              /\ \A i \in 1..Len(trace[m]) :
                    trace[m][i].ev \in {"exec", "execfail", "execfailpg", "record", "recordfail"} =>
                       \E b \in 1..i :
                          /\ trace[m][b] = Event("begin", trace[m][i].name)
                          /\ \A k \in b..i : trace[m][k].ev \notin TxEnds
                          /\ \A k \in (b + 1)..i : trace[m][k].name = trace[m][i].name
              /\ \A i \in 1..Len(trace[m]) : \A j \in (i + 1)..Len(trace[m]) :
                    (trace[m][i].ev = "begin" /\ trace[m][j].ev = "begin") =>
                       /\ trace[m][i].name # trace[m][j].name
                       /\ \E k \in (i + 1)..(j - 1) : trace[m][k] = Event("commit", trace[m][i].name)
              /\ tx[m].open =>
                    /\ trace[m][Len(trace[m])].ev \notin TxEnds
                    /\ Cardinality((Range(tx[m].versionTable) \ Range(versionTable))
                          \cup (Range(versionTable) \ Range(tx[m].versionTable))) <= 1
              /\ (~tx[m].open /\ Has(trace[m], "begin")) =>
                    \E e \in 1..Len(trace[m]) :
                       /\ trace[m][e].ev \in TxEnds
                       /\ \A k \in (e + 1)..Len(trace[m]) : trace[m][k].ev # "begin" => 
                             trace[m][k].ev \in {"rollback", "unlock", "unlockfail"}
                             \/ \E b \in (e + 1)..k : trace[m][b].ev = "begin"

\* two entries have been processed, each in its own committed transaction
C28_Witness ==
    \E m \in Migrators :
        /\ ~DisableTx[m] /\ Succeeded(m)
        /\ Len(EventNames(trace[m], "begin")) = 2
        /\ EventNames(trace[m], "commit") = EventNames(trace[m], "begin")

C30_LockAcquireFailure ==
    /\ [](\A m \in Migrators :
            Has(trace[m], "lockfail") =>
               /\ pc[m] = "returned"
               /\ err[m] = Error("ErrLock")
               /\ trace[m] = IF op[m] = "Migrate"
                             THEN <<Event("read", 0), Event("lockfail", 0)>>
                             ELSE <<Event("lockfail", 0)>>
               /\ direction[m] = "none"
               /\ migrationsToApply[m] = <<>>
               /\ OnStart[m].calls = <<>>
               /\ ~lockHeld[m]
               /\ ~tx[m].open
               /\ DBRead(m) = pre[m])
    /\ [][\A m \in Migrators :
            (pc[m] = "acquire" /\ pc'[m] = "returned") =>
               /\ Has(trace'[m], "lockfail")
               /\ UNCHANGED <<dbVars, lockHeld, tx, Migrations, OnStart, targetMigration>>]_vars

\* a MigrateTo call on a database with applied migrations has returned the
\* error of the failed acquire
C30_Witness ==
    \E m \in Migrators :
        /\ op[m] = "MigrateTo"
        /\ pc[m] = "returned"
        /\ err[m] = Error("ErrLock")
        /\ versionTable # <<>>

\* C31: in every MigrateTo run each name of the computed traversal is a key of
\* the loaded migration set, so the lookup m.Migrations[currentName] of every
\* entry finds a migration, and the run never fails on a missing entry
C31_TraversalLoaded ==
    \A m \in Migrators :
        /\ \A i \in 1..Len(migrationsToApply[m]) :
              migrationsToApply[m][i] \in DOMAIN Migrations[m]
        /\ ~(err[m] = Error("panic") /\ Len(migrationsToApply[m]) > 0)

Distinct(s) == \A i \in 1..Len(s) : \A j \in (i + 1)..Len(s) : s[i] # s[j]

\* m sends the up SQL of its current entry to the database in this step
SendsUp(m) ==
    /\ pc[m] = "exec" /\ pc'[m] # "exec"
    /\ direction[m] = Forward
    /\ Executes(m, Migrations[m][migrationsToApply[m][idx[m]]].UpSQL)

\* the name whose up SQL m is about to execute
UpName(m) == migrationsToApply[m][idx[m]]

C33_PrefixInvariant ==
    \A m \in Migrators :
        LET sorted == SortStrings(DOMAIN Migrations[m])
            IsPrefix(s) == Len(s) <= Len(sorted) /\ s = SubSeq(sorted, 1, Len(s))
        IN /\ IsPrefix(versionTable)
           /\ tx[m].open => IsPrefix(tx[m].versionTable)

\* a Back run without transactions has failed and left a non-empty version
\* table, while the other migrator is waiting for the lock
C33_Witness ==
    \E m \in Migrators : \E o \in Migrators \ {m} :
        /\ pc[m] = "returned" /\ err[m] # NoError
        /\ direction[m] = Back /\ DisableTx[m]
        /\ versionTable # <<>>
        /\ pc[o] = "acquire"

\* C34: a Migrate call, whose target is chosen from the pending list read
\* before the advisory lock is taken, never executes down SQL and never
\* deletes a version row, whatever other migrators do between that read and
\* the lock acquisition
C34_MigrateNeverReverts ==
    \A m \in Migrators :
        (op[m] = "Migrate" /\ direction[m] = Back) =>
            \A i \in 1..Len(trace[m]) :
                trace[m][i].ev \notin {"exec", "execfail", "execfailpg", "record", "recordfail"}

\* C35: with transactions enabled, a failing MigrateTo run rolls its open
\* transaction back before it releases the advisory lock: no release is
\* attempted while the transaction is open, every begin is followed by a
\* commit, a failed commit or a rollback before the release, and no other
\* migrator is inside a run while the transaction is open
C35_RollbackBeforeUnlock ==
    \A m \in Migrators :
        ~DisableTx[m] =>
            /\ (pc[m] \in {"unlock", "returned", "idle"}) => ~tx[m].open
            /\ \A i \in 1..Len(trace[m]) :
                  trace[m][i].ev \in {"unlock", "unlockfail"} =>
                     \A b \in 1..(i - 1) :
                        trace[m][b].ev = "begin" =>
                           \E e \in (b + 1)..(i - 1) : trace[m][e].ev \in TxEnds
            /\ tx[m].open =>
                  /\ lockHeld[m]
                  /\ \A o \in Migrators \ {m} : ~InRun(o) /\ ~tx[o].open /\ ~lockHeld[o]

\* a run with transactions has failed inside an entry, rolled the entry back
\* and then released the lock, while the other migrator waits for the lock
C35_Witness ==
    \E m \in Migrators : \E o \in Migrators \ {m} :
        /\ ~DisableTx[m]
        /\ pc[m] = "returned" /\ err[m] # NoError
        /\ Len(trace[m]) >= 2
        /\ trace[m][Len(trace[m]) - 1].ev = "rollback"
        /\ trace[m][Len(trace[m])].ev = "unlock"
        /\ pc[o] = "acquire"

\* C36: with DisableTx set, when the SQL of a traversal entry fails, no
\* version row is inserted or deleted for that entry: the failing step leaves
\* the version table alone, no record of the entry follows, and the entry is
\* still pending (Forward) or still applied (Back) when the call returns; a
\* row is only recorded for an entry whose SQL ran without error or was empty
C36_NoRecordWithoutSuccess ==
    /\ [](\A m \in Migrators :
            DisableTx[m] =>
               /\ \A i \in 1..Len(trace[m]) :
                     trace[m][i].ev \in {"execfail", "execfailpg"} =>
                        /\ \A j \in 1..Len(trace[m]) :
                              trace[m][j].ev \in {"record", "recordfail"} =>
                                 /\ j < i
                                 /\ trace[m][j].name # trace[m][i].name
                        /\ direction[m] = Forward => trace[m][i].name \notin Range(versionTable)
                        /\ direction[m] = Back => trace[m][i].name \in Range(versionTable)
               /\ \A j \in 1..Len(trace[m]) :
                     trace[m][j].ev = "record" =>
                        \/ \E i \in 1..(j - 1) : trace[m][i] = Event("exec", trace[m][j].name)
                        \/ ~Executes(m, SQLFor(Migrations[m][trace[m][j].name], direction[m])))
    /\ [][\A m \in Migrators :
            ( /\ DisableTx[m]
              /\ pc[m] = "exec"
              /\ Len(trace'[m]) > Len(trace[m])
              /\ trace'[m][Len(trace'[m])].ev \in {"execfail", "execfailpg"} ) =>
                 UNCHANGED <<versionTable, objects>>]_vars

\* without transactions the second entry of a run has failed in Exec after
\* the first was recorded
C36_Witness ==
    \E m \in Migrators :
        /\ DisableTx[m]
        /\ pc[m] = "returned"
        /\ Has(trace[m], "record")
        /\ \E i \in 1..Len(trace[m]) : trace[m][i].ev \in {"execfail", "execfailpg"}

\* the run of m holds the lock and its target is the newest row of the
\* version table as it was when the lock was taken
ToHead(m) ==
    /\ op[m] = "MigrateTo"
    /\ Has(trace[m], "lock")
    /\ pre[m].versionTable # <<>>
    /\ targetMigration[m] = pre[m].versionTable[Len(pre[m].versionTable)]

\* C37: MigrateTo(target) with the most recently applied migration as target
\* opens no transaction, executes no migration SQL and leaves the version
\* table and the objects as they were; it only reads the version table and
\* releases the lock, and it returns nil unless one of these calls fails
C37_HeadIsNoOp ==
    \A m \in Migrators :
        ToHead(m) =>
            /\ ~tx[m].open
            /\ \A i \in 1..Len(trace[m]) :
                  trace[m][i].ev \in {"lock", "read", "readfail", "unlock", "unlockfail"}
            /\ direction[m] \in {"none", Back}
            /\ migrationsToApply[m] = <<>>
            /\ versionTable = pre[m].versionTable
            /\ objects = pre[m].objects
            /\ pc[m] = "returned" =>
                  /\ err[m] \in {NoError, Error("ErrRead"), Error("ErrUnlock")}
                  /\ err[m] = NoError <=>
                        ~Has(trace[m], "readfail") /\ ~Has(trace[m], "unlockfail")

\* MigrateTo(2) on the version table [1, 2] has returned nil
C37_Witness ==
    \E m \in Migrators :
        /\ ToHead(m)
        /\ Len(versionTable) >= 2
        /\ pc[m] = "returned"
        /\ err[m] = NoError
        /\ Count(trace[m], "read") = 2

====
